---------------------------- MODULE Spec2Model ----------------------------
(***************************************************************************)
(* The todo data-access layer (app/lib/todos.ts) over the todos table      *)
(* (database/schema.ts), as a state machine.                               *)
(*                                                                         *)
(* Every data-access function is an async function: it runs synchronously *)
(* up to its first await (validation, the clock read, building the        *)
(* statement), and the awaited statement is executed by the storage       *)
(* engine at some later moment.  Each call occupies a slot of ops; the    *)
(* "...Call" action is the synchronous prefix and the following action of *)
(* the same slot is the execution of the awaited statement together with  *)
(* the code that runs on its result.  Statements of different calls       *)
(* interleave freely; a single statement is atomic.                       *)
(***************************************************************************)
EXTENDS Integers, Sequences, FiniteSets, TLC

VARIABLES
    todos,    \* the todos table: a function from the ids of the stored rows to the rows
    nextId,   \* the AUTOINCREMENT sequence: the id the next inserted row gets
    clock,    \* the wall clock read by new Date(), in milliseconds
    ops       \* the calls in flight or just completed, one per slot

vars == <<todos, nextId, clock, ops>>

-----------------------------------------------------------------------------
(* Bounds of the model *)

MaxRows == 2        \* rows ever inserted
MaxClock == 1000    \* last clock value, in milliseconds

Slots == {1, 2}               \* calls that may overlap
TickSteps == {500, 1000}      \* how far the clock moves between two reads

-----------------------------------------------------------------------------
(* Optional values: undefined (a key that is absent) or null is the empty  *)
(* set, a present value v is {v}.                                          *)

Undefined == {}
Null == {}
Some(v) == {v}
Val(m) == CHOOSE v \in m : TRUE

-----------------------------------------------------------------------------
(* Strings, run-length encoded: a string is the sequence of its maximal    *)
(* runs of one character, <<[ch |-> "a", n |-> 255]>> is "a".repeat(255).   *)
(* The empty string is <<>>.                                               *)

Run(c, k) == [ch |-> c, n |-> k]

RECURSIVE Length(_)
Length(s) == IF s = <<>> THEN 0 ELSE Head(s).n + Length(Tail(s))

IsWhiteSpace(c) == c = " "

RECURSIVE TrimStart(_)
TrimStart(s) ==
    IF s = <<>> THEN <<>>
    ELSE IF IsWhiteSpace(Head(s).ch) THEN TrimStart(Tail(s))
    ELSE s

RECURSIVE TrimEnd(_)
TrimEnd(s) ==
    IF s = <<>> THEN <<>>
    ELSE IF IsWhiteSpace(s[Len(s)].ch) THEN TrimEnd(SubSeq(s, 1, Len(s) - 1))
    ELSE s

\* String.prototype.trim
Trim(s) == TrimEnd(TrimStart(s))

\* a string in a boolean context: "" is falsy
Truthy(s) == s # <<>>

-----------------------------------------------------------------------------
(* Numbers passed as ids: an integer v, a non-integral number whose floor  *)
(* is v (v + 0.5), or NaN.                                                 *)

Int_(v) == [kind |-> "int", v |-> v]
Frac(v) == [kind |-> "frac", v |-> v]
NaN == [kind |-> "nan", v |-> 0]

NumberIsInteger(id) == id.kind = "int"

\* id <= 0; every comparison with NaN is false
LeqZero(id) ==
    \/ id.kind = "int" /\ id.v <= 0
    \/ id.kind = "frac" /\ id.v < 0

IsValidIdNoIntegerCheck(id) == ~LeqZero(id)

\* the guard of getTodoById, updateTodo, deleteTodo and bulkUpdateTodos, negated
IsValidId(id) == ~(~NumberIsInteger(id) \/ LeqZero(id))

-----------------------------------------------------------------------------
(* Timestamps: a column integer({ mode: "timestamp" }) holds whole seconds *)

MsPerSec == 1000

\* Date -> column value
ToDriver(ms) == ms \div MsPerSec

\* column value -> Date
FromDriver(sec) == sec * MsPerSec

\* a stored row as the Todo a select or a returning() hands to the caller
ToTodo(row) ==
    [row EXCEPT !.createdAt = FromDriver(row.createdAt),
                !.updatedAt = FromDriver(row.updatedAt)]

-----------------------------------------------------------------------------
(* The data a caller passes: CreateTodoData and UpdateTodoData.  A key is  *)
(* present (Some) or absent (Undefined).  At run time nothing restricts a  *)
(* priority to the three values of its type.                               *)

Priorities == {"low", "medium", "high"}

Data(t, d, c, p) == [title |-> t, description |-> d, completed |-> c, priority |-> p]

NoData == Data(Undefined, Undefined, Undefined, Undefined)

\* TodoFilter: each key present or absent; no filter at all reads the same
\* through filter?.key
Filter(c, p, s) == [completed |-> c, priority |-> p, search |-> s]

NoFilter == Filter(Undefined, Undefined, Undefined)

\* TodoSort and TodoPagination
Sort(f, o) == [field |-> f, order |-> o]
Pagination(l, o) == [limit |-> l, offset |-> o]

\* what a statement writes: values() of an insert, set() of an update
NoSet ==
    [title |-> Undefined, description |-> Undefined, completed |-> Undefined,
     priority |-> Undefined, createdAt |-> Undefined, updatedAt |-> Undefined]

-----------------------------------------------------------------------------
(* Outcomes of a call: a returned value or a thrown error (errors.ts)      *)

\* the counts getTodoStats returns
NoStats == [total |-> 0, completed |-> 0, pending |-> 0, low |-> 0, medium |-> 0, high |-> 0]

NoRes ==
    [err |-> "none", field |-> "", row |-> Null, flag |-> FALSE, count |-> 0,
     rows |-> <<>>, stats |-> NoStats, message |-> <<>>]

ValidationError(field) == [NoRes EXCEPT !.err = "ValidationError", !.field = field]
\* the error of the engine, not wrapped
RawStorageError == [NoRes EXCEPT !.err = "Error"]

DatabaseError == [NoRes EXCEPT !.err = "DatabaseError"]
ReturnRow(m) == [NoRes EXCEPT !.row = m]
ReturnFlag(b) == [NoRes EXCEPT !.flag = b]
ReturnCount(k) == [NoRes EXCEPT !.count = k]
ReturnRows(r) == [NoRes EXCEPT !.rows = r]
ReturnStats(st) == [NoRes EXCEPT !.stats = st]
ReturnMessage(msg) == [NoRes EXCEPT !.message = msg]

\* a TypeError raised by the run time, e.g. a call of a method a value does not have
TypeError == [NoRes EXCEPT !.err = "TypeError"]

\* what a request carries: the fields of a posted form, the parameters of a URL;
\* an entry that is absent is null
NoRequest ==
    [intent |-> Null, id |-> Null, completed |-> Null, title |-> Null,
     description |-> Null, priority |-> Null, search |-> Null, sort |-> Null,
     order |-> Null, limit |-> Null, offset |-> Null]

-----------------------------------------------------------------------------
(* A slot: the call it holds (op and arguments), the position of the call  *)
(* (pc), its local variables, the number of statements it has had          *)
(* executed (stmts), its outcome once it is done (res), and whether a      *)
(* write statement of any call was executed since it completed (dirty),    *)
(* and how many were executed between its counts (window).                 *)

Idle ==
    [pc |-> "idle", op |-> "none", id |-> NaN, ids |-> <<>>, data |-> NoData,
     filter |-> NoFilter, sort |-> Undefined, pagination |-> Undefined,
     set |-> NoSet, todo |-> Null, i |-> 0, j |-> 0, count |-> 0, counts |-> <<>>,
     request |-> NoRequest, error |-> Null,
     stmts |-> 0, dirty |-> FALSE, window |-> 0, res |-> NoRes]

Call(op, id, ids, data) ==
    [Idle EXCEPT !.op = op, !.id = id, !.ids = ids, !.data = data]

\* the call of slot o completes with outcome r: its locals go out of scope
Done(o, r) ==
    [Idle EXCEPT !.pc = "done", !.op = o.op, !.id = o.id, !.ids = o.ids,
                 !.data = o.data, !.filter = o.filter, !.sort = o.sort,
                 !.pagination = o.pagination, !.request = o.request,
                 !.error = o.error, !.stmts = o.stmts, !.window = o.window, !.res = r]

\* the counts of getTodoStats call c are being taken: one has been, one is to come
Counting(c) ==
    /\ c.pc = "stats"
    /\ \E k \in DOMAIN c.counts : c.counts[k] # Undefined

\* a write statement was executed: every completed call is now in the past,
\* and the write falls between the counts of every getTodoStats that is counting
MarkDirty(o, p) ==
    [q \in Slots |->
        IF q # p /\ o[q].pc = "done" THEN [o[q] EXCEPT !.dirty = TRUE]
        ELSE IF q # p /\ Counting(o[q]) THEN [o[q] EXCEPT !.window = @ + 1]
        ELSE o[q]]

-----------------------------------------------------------------------------
(* The storage engine: single statements on the todos table                *)

\* insert(todos).values(v).returning(): the row gets the next id of the sequence
InsertedRow(nid, v) ==
    [id |-> nid,
     title |-> Val(v.title),
     description |-> v.description,
     completed |-> Val(v.completed),
     priority |-> Val(v.priority),
     createdAt |-> ToDriver(Val(v.createdAt)),
     updatedAt |-> ToDriver(Val(v.updatedAt))]

\* update(todos).set(s): a key whose value is undefined is left out of the SET clause
UpdatedRow(row, s) ==
    [id |-> row.id,
     title |-> IF s.title # Undefined THEN Val(s.title) ELSE row.title,
     description |-> IF s.description # Undefined THEN s.description ELSE row.description,
     completed |-> IF s.completed # Undefined THEN Val(s.completed) ELSE row.completed,
     priority |-> IF s.priority # Undefined THEN Val(s.priority) ELSE row.priority,
     createdAt |-> IF s.createdAt # Undefined THEN ToDriver(Val(s.createdAt)) ELSE row.createdAt,
     updatedAt |-> IF s.updatedAt # Undefined THEN ToDriver(Val(s.updatedAt)) ELSE row.updatedAt]

\* an update that writes a row also when none has the id
DbUpdateOrInsert(t, id, s) ==
    [k \in DOMAIN t \cup {id} |->
        IF k # id THEN t[k]
        ELSE UpdatedRow(IF id \in DOMAIN t THEN t[id]
                        ELSE [id |-> id, title |-> <<>>, description |-> Null,
                              completed |-> FALSE, priority |-> "medium",
                              createdAt |-> 0, updatedAt |-> 0], s)]

\* update(todos).set(s).where(eq(todos.id, id))
DbUpdate(t, id, s) ==
    IF id \in DOMAIN t THEN [t EXCEPT ![id] = UpdatedRow(t[id], s)] ELSE t

DbDeleteNoWhere(t, id) == [k \in {} |-> t[k]]

\* delete(todos).where(eq(todos.id, id))
DbDelete(t, id) == [k \in DOMAIN t \ {id} |-> t[k]]

\* select().from(todos).where(eq(todos.id, id)).limit(1), then result[0] || null
DbSelectById(t, id) == IF id \in DOMAIN t THEN Some(ToTodo(t[id])) ELSE Null

\* the affected-row count of an update or delete with where(eq(todos.id, id))
Changes(t, id) == IF id \in DOMAIN t THEN 1 ELSE 0

-----------------------------------------------------------------------------
(* createTodo                                                              *)

MaxTitleLength == 255
MaxDescriptionLength == 1000

\* !data.title || data.title.trim().length === 0
TitleMissing(t) == t = Undefined \/ ~Truthy(Val(t)) \/ Length(Trim(Val(t))) = 0

TitleTooLongOffByOne(t) == Length(Trim(Val(t))) >= MaxTitleLength

\* data.title.trim().length > 255
TitleTooLong(t) == Length(Trim(Val(t))) > MaxTitleLength

\* data.description && data.description.length > 1000
DescriptionTooLong(d) ==
    d # Undefined /\ Truthy(Val(d)) /\ Length(Val(d)) > MaxDescriptionLength

\* data.priority && !["low", "medium", "high"].includes(data.priority)
PriorityInvalid(p) == p # Undefined /\ Val(p) # "" /\ Val(p) \notin Priorities

\* the checks of createTodo in their order: the field of the first that fails, or ""
CreateInvalidField(data) ==
    IF TitleMissing(data.title) THEN "title"
    ELSE IF TitleTooLong(data.title) THEN "title"
    ELSE IF DescriptionTooLong(data.description) THEN "description"
    ELSE IF PriorityInvalid(data.priority) THEN "priority"
    ELSE ""

\* data.description?.trim() || null
TrimOrNull(d) ==
    IF d = Undefined THEN Null
    ELSE IF Truthy(Trim(Val(d))) THEN Some(Trim(Val(d))) ELSE Null

CreateValuesEmptyDescription(data, now) ==
    [title |-> Some(Trim(Val(data.title))),
     description |-> IF data.description = Undefined THEN Null
                     ELSE Some(Trim(Val(data.description))),
     priority |-> IF data.priority # Undefined /\ Val(data.priority) # ""
                  THEN data.priority ELSE Some("medium"),
     completed |-> Some(FALSE),
     createdAt |-> Some(now),
     updatedAt |-> Some(now)]

\* the object passed to values()
CreateValues(data, now) ==
    [title |-> Some(Trim(Val(data.title))),
     description |-> TrimOrNull(data.description),
     priority |-> IF data.priority # Undefined /\ Val(data.priority) # ""
                  THEN data.priority ELSE Some("medium"),
     completed |-> Some(FALSE),
     createdAt |-> Some(now),
     updatedAt |-> Some(now)]

\* createTodo up to its await: validation, new Date(), the insert statement is issued
\* createTodo up to its await, in call c: the validation, the clock, the values
CreateTodoPrefix(c, data, now) ==
    IF CreateInvalidField(data) # "" THEN Done(c, ValidationError(CreateInvalidField(data)))
    ELSE [c EXCEPT !.pc = "insert", !.set = CreateValues(data, now)]

CreateTodoCall(p, data) ==
    /\ ops[p].pc = "idle"
    /\ ops' = [ops EXCEPT ![p] =
            CreateTodoPrefix(Call("createTodo", NaN, <<>>, data), data, clock)]
    /\ UNCHANGED <<todos, nextId, clock>>

\* the insert is executed (or the engine fails) and createTodo returns result[0]
CreateTodoInsert(p, fail) ==
    /\ ops[p].pc = "insert"
    /\ LET o == [ops[p] EXCEPT !.stmts = @ + 1]
           row == InsertedRow(nextId, o.set)
       IN  IF fail
           THEN /\ ops' = [ops EXCEPT ![p] = Done(o, DatabaseError)]
                /\ UNCHANGED <<todos, nextId>>
           ELSE /\ todos' = [k \in DOMAIN todos \cup {nextId} |->
                                IF k = nextId THEN row ELSE todos[k]]
                /\ nextId' = nextId + 1
                /\ ops' = [MarkDirty(ops, p) EXCEPT ![p] = Done(o, ReturnRow(Some(ToTodo(row))))]
    /\ UNCHANGED clock

-----------------------------------------------------------------------------
(* getTodoById                                                             *)

GetTodoByIdCall(p, id) ==
    /\ ops[p].pc = "idle"
    /\ LET c == Call("getTodoById", id, <<>>, NoData)
       IN  ops' = [ops EXCEPT ![p] =
                IF ~IsValidId(id) THEN Done(c, ValidationError("id"))
                ELSE [c EXCEPT !.pc = "select"]]
    /\ UNCHANGED <<todos, nextId, clock>>

GetTodoByIdSelect(p, fail) ==
    /\ ops[p].pc = "select"
    /\ LET o == [ops[p] EXCEPT !.stmts = @ + 1]
       IN  ops' = [ops EXCEPT ![p] =
                IF fail THEN Done(o, DatabaseError)
                ELSE Done(o, ReturnRow(DbSelectById(todos, o.id.v)))]
    /\ UNCHANGED <<todos, nextId, clock>>

-----------------------------------------------------------------------------
(* updateTodo                                                              *)

\* the checks of updateTodo on its data, in their order
UpdateInvalidField(data) ==
    IF data.title # Undefined /\ TitleMissing(data.title) THEN "title"
    ELSE IF data.title # Undefined /\ TitleTooLong(data.title) THEN "title"
    ELSE IF DescriptionTooLong(data.description) THEN "description"
    ELSE IF PriorityInvalid(data.priority) THEN "priority"
    ELSE ""

\* data.description?.trim() || undefined, and the key deleted when data has none
TrimOrUndefined(d) ==
    IF d = Undefined THEN Undefined
    ELSE IF Truthy(Trim(Val(d))) THEN Some(Trim(Val(d))) ELSE Undefined

\* updateData: { ...data, updatedAt: now } with the string fields trimmed
UpdateSet(data, now) ==
    [title |-> IF data.title # Undefined THEN Some(Trim(Val(data.title))) ELSE Undefined,
     description |-> TrimOrUndefined(data.description),
     completed |-> data.completed,
     priority |-> data.priority,
     createdAt |-> Undefined,
     updatedAt |-> Some(now)]

\* updateTodo up to its await, as the continuation of call c
UpdateTodoPrefix(c, id, data, now, pc) ==
    IF ~IsValidId(id) THEN Done(c, ValidationError("id"))
    ELSE IF UpdateInvalidField(data) # "" THEN Done(c, ValidationError(UpdateInvalidField(data)))
    ELSE [c EXCEPT !.pc = pc, !.set = UpdateSet(data, now)]

\* update ... returning() is executed and updateTodo returns result[0] || null
UpdateTodoStatement(p, fail) ==
    LET o == [ops[p] EXCEPT !.stmts = @ + 1]
        t == DbUpdate(todos, o.id.v, o.set)
    IN  IF fail
        THEN /\ ops' = [ops EXCEPT ![p] = Done(o, DatabaseError)]
             /\ UNCHANGED todos
        ELSE /\ todos' = t
             /\ ops' = [(IF Changes(todos, o.id.v) > 0 THEN MarkDirty(ops, p) ELSE ops)
                            EXCEPT ![p] = Done(o, ReturnRow(DbSelectById(t, o.id.v)))]

UpdateTodoCall(p, id, data) ==
    /\ ops[p].pc = "idle"
    /\ ops' = [ops EXCEPT ![p] =
            UpdateTodoPrefix(Call("updateTodo", id, <<>>, data), id, data, clock, "update")]
    /\ UNCHANGED <<todos, nextId, clock>>

UpdateTodoWrite(p, fail) ==
    /\ ops[p].pc = "update"
    /\ UpdateTodoStatement(p, fail)
    /\ UNCHANGED <<nextId, clock>>

-----------------------------------------------------------------------------
(* deleteTodo                                                              *)

DeleteTodoCall(p, id) ==
    /\ ops[p].pc = "idle"
    /\ LET c == Call("deleteTodo", id, <<>>, NoData)
       IN  ops' = [ops EXCEPT ![p] =
                IF ~IsValidId(id) THEN Done(c, ValidationError("id"))
                ELSE [c EXCEPT !.pc = "delete"]]
    /\ UNCHANGED <<todos, nextId, clock>>

\* the delete is executed and deleteTodo returns changes > 0
DeleteTodoWrite(p, fail) ==
    /\ ops[p].pc = "delete"
    /\ LET o == [ops[p] EXCEPT !.stmts = @ + 1]
       IN  IF fail
           THEN /\ ops' = [ops EXCEPT ![p] = Done(o, DatabaseError)]
                /\ UNCHANGED todos
           ELSE /\ todos' = DbDelete(todos, o.id.v)
                /\ ops' = [(IF Changes(todos, o.id.v) > 0 THEN MarkDirty(ops, p) ELSE ops)
                               EXCEPT ![p] = Done(o, ReturnFlag(Changes(todos, o.id.v) > 0))]
    /\ UNCHANGED <<nextId, clock>>

-----------------------------------------------------------------------------
(* toggleTodoComplete: getTodoById, then updateTodo with the negated flag  *)

\* getTodoById up to its await; its ValidationError is rethrown unchanged
ToggleTodoCompleteCall(p, id) ==
    /\ ops[p].pc = "idle"
    /\ LET c == Call("toggleTodoComplete", id, <<>>, NoData)
       IN  ops' = [ops EXCEPT ![p] =
                IF ~IsValidId(id) THEN Done(c, ValidationError("id"))
                ELSE [c EXCEPT !.pc = "toggleSelect"]]
    /\ UNCHANGED <<todos, nextId, clock>>

\* the select of getTodoById is executed; a failure is wrapped twice as a DatabaseError
ToggleTodoCompleteSelect(p, fail) ==
    /\ ops[p].pc = "toggleSelect"
    /\ LET o == [ops[p] EXCEPT !.stmts = @ + 1]
       IN  ops' = [ops EXCEPT ![p] =
                IF fail THEN Done(o, DatabaseError)
                ELSE [o EXCEPT !.pc = "toggleRead", !.todo = DbSelectById(todos, o.id.v)]]
    /\ UNCHANGED <<todos, nextId, clock>>

ToggleTodoCompleteResumeNoNegation(p) ==
    /\ ops[p].pc = "toggleRead"
    /\ LET o == ops[p]
       IN  ops' = [ops EXCEPT ![p] =
                IF o.todo = Null THEN Done(o, ReturnRow(Null))
                ELSE UpdateTodoPrefix([o EXCEPT !.todo = Null], o.id,
                        Data(Undefined, Undefined, Some(Val(o.todo).completed), Undefined),
                        clock, "toggleUpdate")]
    /\ UNCHANGED <<todos, nextId, clock>>

\* the code after await getTodoById: return null, or updateTodo up to its await
ToggleTodoCompleteResume(p) ==
    /\ ops[p].pc = "toggleRead"
    /\ LET o == ops[p]
       IN  ops' = [ops EXCEPT ![p] =
                IF o.todo = Null THEN Done(o, ReturnRow(Null))
                ELSE UpdateTodoPrefix([o EXCEPT !.todo = Null], o.id,
                        Data(Undefined, Undefined, Some(~Val(o.todo).completed), Undefined),
                        clock, "toggleUpdate")]
    /\ UNCHANGED <<todos, nextId, clock>>

ToggleTodoCompleteWrite(p, fail) ==
    /\ ops[p].pc = "toggleUpdate"
    /\ UpdateTodoStatement(p, fail)
    /\ UNCHANGED <<nextId, clock>>

-----------------------------------------------------------------------------
(* bulkUpdateTodos                                                         *)

batchSize == 50

Min(a, b) == IF a < b THEN a ELSE b

\* updateData: { ...updates, updatedAt: now }
BulkSet(updates, now) ==
    [title |-> updates.title,
     description |-> updates.description,
     completed |-> updates.completed,
     priority |-> updates.priority,
     createdAt |-> Undefined,
     updatedAt |-> Some(now)]

BulkUpdateTodosCallFirstIdOnly(p, ids, updates) ==
    /\ ops[p].pc = "idle"
    /\ LET c == Call("bulkUpdateTodos", NaN, ids, updates)
       IN  ops' = [ops EXCEPT ![p] =
                IF Len(ids) = 0 THEN Done(c, ReturnCount(0))
                ELSE IF ~IsValidId(ids[1])
                     THEN Done(c, ValidationError("id"))
                ELSE [c EXCEPT !.pc = "bulk", !.set = BulkSet(updates, clock),
                               !.i = 0, !.j = 1, !.count = 0]]
    /\ UNCHANGED <<todos, nextId, clock>>

\* bulkUpdateTodos up to its first await
BulkUpdateTodosCall(p, ids, updates) ==
    /\ ops[p].pc = "idle"
    /\ LET c == Call("bulkUpdateTodos", NaN, ids, updates)
       IN  ops' = [ops EXCEPT ![p] =
                IF Len(ids) = 0 THEN Done(c, ReturnCount(0))
                ELSE IF \E k \in 1..Len(ids) : ~IsValidId(ids[k])
                     THEN Done(c, ValidationError("id"))
                ELSE [c EXCEPT !.pc = "bulk", !.set = BulkSet(updates, clock),
                               !.i = 0, !.j = 1, !.count = 0]]
    /\ UNCHANGED <<todos, nextId, clock>>

BulkUpdateTodosStepSwallowsFailure(p, fail) ==
    /\ ops[p].pc = "bulk"
    /\ LET o == [ops[p] EXCEPT !.stmts = @ + 1]
           id == o.ids[o.i + o.j].v
           batchLen == Min(o.i + batchSize, Len(o.ids)) - o.i
           cnt == IF Changes(todos, id) > 0 THEN o.count + 1 ELSE o.count
           ni == IF o.j < batchLen THEN o.i ELSE o.i + batchSize
           nj == IF o.j < batchLen THEN o.j + 1 ELSE 1
       IN  IF fail
           THEN /\ ops' = [ops EXCEPT ![p] = Done(o, ReturnCount(o.count))]
                /\ UNCHANGED todos
           ELSE /\ todos' = DbUpdate(todos, id, o.set)
                /\ ops' = [(IF Changes(todos, id) > 0 THEN MarkDirty(ops, p) ELSE ops)
                               EXCEPT ![p] =
                        IF ni < Len(o.ids)
                        THEN [o EXCEPT !.i = ni, !.j = nj, !.count = cnt]
                        ELSE Done(o, ReturnCount(cnt))]
    /\ UNCHANGED <<nextId, clock>>

\* one round of the inner loop: the update of the j-th id of the batch that starts
\* at index i is executed and counted; after the last id the count is returned
BulkUpdateTodosStep(p, fail) ==
    /\ ops[p].pc = "bulk"
    /\ LET o == [ops[p] EXCEPT !.stmts = @ + 1]
           id == o.ids[o.i + o.j].v
           batchLen == Min(o.i + batchSize, Len(o.ids)) - o.i
           cnt == IF Changes(todos, id) > 0 THEN o.count + 1 ELSE o.count
           ni == IF o.j < batchLen THEN o.i ELSE o.i + batchSize
           nj == IF o.j < batchLen THEN o.j + 1 ELSE 1
       IN  IF fail
           THEN /\ ops' = [ops EXCEPT ![p] = Done(o, DatabaseError)]
                /\ UNCHANGED todos
           ELSE /\ todos' = DbUpdate(todos, id, o.set)
                /\ ops' = [(IF Changes(todos, id) > 0 THEN MarkDirty(ops, p) ELSE ops)
                               EXCEPT ![p] =
                        IF ni < Len(o.ids)
                        THEN [o EXCEPT !.i = ni, !.j = nj, !.count = cnt]
                        ELSE Done(o, ReturnCount(cnt))]
    /\ UNCHANGED <<nextId, clock>>

-----------------------------------------------------------------------------
(* Text as the query sees it: sequences of characters                      *)

\* the characters of a run-length encoded string
RECURSIVE Chars(_)
Chars(s) ==
    IF s = <<>> THEN <<>>
    ELSE [k \in 1..Head(s).n |-> Head(s).ch] \o Chars(Tail(s))

\* the characters of a priority value
PriorityChars(p) ==
    CASE p = "low" -> <<"l", "o", "w">>
      [] p = "medium" -> <<"m", "e", "d", "i", "u", "m">>
      [] p = "high" -> <<"h", "i", "g", "h">>
      [] p = "urgent" -> <<"u", "r", "g", "e", "n", "t">>
      [] OTHER -> <<>>

UpperToLower ==
    [A |-> "a", B |-> "b", C |-> "c", D |-> "d", E |-> "e", F |-> "f",
     G |-> "g", H |-> "h", I |-> "i", J |-> "j", K |-> "k", L |-> "l",
     M |-> "m", N |-> "n", O |-> "o", P |-> "p", Q |-> "q", R |-> "r",
     S |-> "s", T |-> "t", U |-> "u", V |-> "v", W |-> "w", X |-> "x",
     Y |-> "y", Z |-> "z"]

LowerChar(c) == IF c \in DOMAIN UpperToLower THEN UpperToLower[c] ELSE c

\* String.prototype.toLowerCase
ToLowerCase(cs) == [k \in 1..Len(cs) |-> LowerChar(cs[k])]

\* the characters of the model in the order of their codes
Ascii ==
    <<" ", "%", "A", "B", "C", "D", "E", "F", "G", "H", "I", "J", "K", "L",
      "M", "N", "O", "P", "Q", "R", "S", "T", "U", "V", "W", "X", "Y", "Z",
      "_", "a", "b", "c", "d", "e", "f", "g", "h", "i", "j", "k", "l", "m",
      "n", "o", "p", "q", "r", "s", "t", "u", "v", "w", "x", "y", "z">>

Code(c) == CHOOSE k \in 1..Len(Ascii) : Ascii[k] = c

\* the LIKE operator of the engine: % matches any run of characters, _ any one
\* character, and the letters a-z match without regard to case
RECURSIVE Like(_, _)
Like(cs, pat) ==
    IF pat = <<>> THEN cs = <<>>
    ELSE IF Head(pat) = "%"
         THEN Like(cs, Tail(pat)) \/ (cs # <<>> /\ Like(Tail(cs), pat))
    ELSE /\ cs # <<>>
         /\ Head(pat) = "_" \/ LowerChar(Head(pat)) = LowerChar(Head(cs))
         /\ Like(Tail(cs), Tail(pat))

\* binary collation: a <= b
RECURSIVE LexLeq(_, _)
LexLeq(a, b) ==
    IF a = <<>> THEN TRUE
    ELSE IF b = <<>> THEN FALSE
    ELSE IF Head(a) # Head(b) THEN Head(a) < Head(b)
    ELSE LexLeq(Tail(a), Tail(b))

-----------------------------------------------------------------------------
(* getAllTodos                                                             *)

\* `%${filter.search.toLowerCase()}%`
SearchTerm(search) == <<"%">> \o ToLowerCase(Chars(search)) \o <<"%">>

\* and(...conditions) on a stored row
Conditions(row, filter) ==
    /\ filter.completed # Undefined => row.completed = Val(filter.completed)
    /\ (filter.priority # Undefined /\ Val(filter.priority) # "")
            => row.priority = Val(filter.priority)
    /\ (filter.search # Undefined /\ Truthy(Val(filter.search)))
            => \/ Like(Chars(row.title), SearchTerm(Val(filter.search)))
               \/ /\ row.description # Null
                  /\ Like(Chars(Val(row.description)), SearchTerm(Val(filter.search)))

SortOrDefaultAscending(sort) ==
    IF sort = Undefined THEN Sort("createdAt", "asc") ELSE Val(sort)

\* sort: TodoSort = { field: "createdAt", order: "desc" }
SortOrDefault(sort) ==
    IF sort = Undefined THEN Sort("createdAt", "desc") ELSE Val(sort)

\* the value of the column todos[sort.field] as the engine compares it
ColumnKey(row, field) ==
    CASE field = "createdAt" -> <<row.createdAt>>
      [] field = "updatedAt" -> <<row.updatedAt>>
      [] field = "title" -> [k \in 1..Len(Chars(row.title)) |-> Code(Chars(row.title)[k])]
      [] field = "priority" ->
            [k \in 1..Len(PriorityChars(row.priority)) |-> Code(PriorityChars(row.priority)[k])]

\* the arrangements of the ids of S in a row
Arrangements(S) ==
    {f \in [1..Cardinality(S) -> S] : \A a, b \in 1..Cardinality(S) : a # b => f[a] # f[b]}

\* orderBy(asc(sortField)) or orderBy(desc(sortField)): every order of the rows
\* of S the engine may produce; rows with equal keys come in any order
OrderBy(t, S, sort) ==
    {f \in Arrangements(S) : \A a \in 1..(Cardinality(S) - 1) :
        IF sort.order = "asc"
        THEN LexLeq(ColumnKey(t[f[a]], sort.field), ColumnKey(t[f[a + 1]], sort.field))
        ELSE LexLeq(ColumnKey(t[f[a + 1]], sort.field), ColumnKey(t[f[a]], sort.field))}

Max(a, b) == IF a > b THEN a ELSE b

\* limit(pagination.limit).offset(pagination.offset): a negative LIMIT is no
\* limit and a negative OFFSET is 0
LimitOffset(f, pagination) ==
    IF pagination = Undefined THEN f
    ELSE LET off == Max(Val(pagination).offset, 0)
             lim == Val(pagination).limit
         IN  IF lim < 0 THEN SubSeq(f, off + 1, Len(f))
             ELSE SubSeq(f, off + 1, Min(off + lim, Len(f)))

\* the results the query can have on table t
Query(t, filter, sort, pagination) ==
    LET S == {k \in DOMAIN t : Conditions(t[k], filter)}
    IN  {[a \in 1..Len(LimitOffset(f, pagination)) |->
                ToTodo(t[LimitOffset(f, pagination)[a]])] :
            f \in OrderBy(t, S, SortOrDefault(sort))}

\* getAllTodos up to its await: the query is built
GetAllTodosCall(p, filter, sort, pagination) ==
    /\ ops[p].pc = "idle"
    /\ ops' = [ops EXCEPT ![p] =
            [Call("getAllTodos", NaN, <<>>, NoData) EXCEPT
                !.pc = "query", !.filter = filter, !.sort = sort, !.pagination = pagination]]
    /\ UNCHANGED <<todos, nextId, clock>>

\* the query is executed
GetAllTodosSelect(p, fail) ==
    /\ ops[p].pc = "query"
    /\ LET o == [ops[p] EXCEPT !.stmts = @ + 1]
       IN  IF fail
           THEN ops' = [ops EXCEPT ![p] = Done(o, DatabaseError)]
           ELSE \E r \in Query(todos, o.filter, o.sort, o.pagination) :
                    ops' = [ops EXCEPT ![p] = Done(o, ReturnRows(r))]
    /\ UNCHANGED <<todos, nextId, clock>>

-----------------------------------------------------------------------------
(* searchTodos                                                             *)

\* or(like(todos.title, term), like(todos.description, term)) on a stored row
SearchWhere(row, searchTerm) ==
    LET term == <<"%">> \o ToLowerCase(Chars(searchTerm)) \o <<"%">>
    IN  \/ Like(Chars(row.title), term)
        \/ row.description # Null /\ Like(Chars(Val(row.description)), term)

\* searchTodos up to its await: a blank term returns [] at once
SearchTodosCall(p, searchTerm) ==
    /\ ops[p].pc = "idle"
    /\ LET c == [Call("searchTodos", NaN, <<>>, NoData) EXCEPT
                    !.filter = Filter(Undefined, Undefined, Some(searchTerm))]
       IN  ops' = [ops EXCEPT ![p] =
                IF ~Truthy(Trim(searchTerm)) THEN Done(c, ReturnRows(<<>>))
                ELSE [c EXCEPT !.pc = "search"]]
    /\ UNCHANGED <<todos, nextId, clock>>

\* the select is executed, ordered by desc(todos.createdAt)
SearchTodosSelect(p, fail) ==
    /\ ops[p].pc = "search"
    /\ LET o == [ops[p] EXCEPT !.stmts = @ + 1]
           S == {k \in DOMAIN todos : SearchWhere(todos[k], Val(o.filter.search))}
       IN  IF fail
           THEN ops' = [ops EXCEPT ![p] = Done(o, DatabaseError)]
           ELSE \E f \in OrderBy(todos, S, Sort("createdAt", "desc")) :
                    ops' = [ops EXCEPT ![p] =
                        Done(o, ReturnRows([a \in 1..Len(f) |-> ToTodo(todos[f[a]])]))]
    /\ UNCHANGED <<todos, nextId, clock>>

-----------------------------------------------------------------------------
(* getTodosByStatus and getTodosByPriority                                 *)

GetTodosByStatusCall(p, completed) ==
    /\ ops[p].pc = "idle"
    /\ ops' = [ops EXCEPT ![p] =
            [Call("getTodosByStatus", NaN, <<>>, NoData) EXCEPT
                !.pc = "byStatus", !.filter = Filter(Some(completed), Undefined, Undefined)]]
    /\ UNCHANGED <<todos, nextId, clock>>

\* where(eq(todos.completed, completed)).orderBy(desc(todos.createdAt))
GetTodosByStatusSelect(p, fail) ==
    /\ ops[p].pc = "byStatus"
    /\ LET o == [ops[p] EXCEPT !.stmts = @ + 1]
           S == {k \in DOMAIN todos : todos[k].completed = Val(o.filter.completed)}
       IN  IF fail
           THEN ops' = [ops EXCEPT ![p] = Done(o, DatabaseError)]
           ELSE \E f \in OrderBy(todos, S, Sort("createdAt", "desc")) :
                    ops' = [ops EXCEPT ![p] =
                        Done(o, ReturnRows([a \in 1..Len(f) |-> ToTodo(todos[f[a]])]))]
    /\ UNCHANGED <<todos, nextId, clock>>

GetTodosByPriorityCall(p, priority) ==
    /\ ops[p].pc = "idle"
    /\ ops' = [ops EXCEPT ![p] =
            [Call("getTodosByPriority", NaN, <<>>, NoData) EXCEPT
                !.pc = "byPriority", !.filter = Filter(Undefined, Some(priority), Undefined)]]
    /\ UNCHANGED <<todos, nextId, clock>>

\* where(eq(todos.priority, priority)).orderBy(desc(todos.createdAt))
GetTodosByPrioritySelect(p, fail) ==
    /\ ops[p].pc = "byPriority"
    /\ LET o == [ops[p] EXCEPT !.stmts = @ + 1]
           S == {k \in DOMAIN todos : todos[k].priority = Val(o.filter.priority)}
       IN  IF fail
           THEN ops' = [ops EXCEPT ![p] = Done(o, DatabaseError)]
           ELSE \E f \in OrderBy(todos, S, Sort("createdAt", "desc")) :
                    ops' = [ops EXCEPT ![p] =
                        Done(o, ReturnRows([a \in 1..Len(f) |-> ToTodo(todos[f[a]])]))]
    /\ UNCHANGED <<todos, nextId, clock>>

-----------------------------------------------------------------------------
(* getTodoStats: six count statements awaited together                     *)

StatsQueries == <<"total", "completed", "pending", "low", "medium", "high">>

\* select({ count: count() }).from(todos).where(...)
CountWhere(t, q) ==
    Cardinality({k \in DOMAIN t :
        CASE q = "total" -> TRUE
          [] q = "completed" -> t[k].completed = TRUE
          [] q = "pending" -> t[k].completed = FALSE
          [] OTHER -> t[k].priority = q})

\* the statements are issued; none has run
GetTodoStatsCall(p) ==
    /\ ops[p].pc = "idle"
    /\ ops' = [ops EXCEPT ![p] =
            [Call("getTodoStats", NaN, <<>>, NoData) EXCEPT
                !.pc = "stats", !.counts = [k \in 1..Len(StatsQueries) |-> Undefined]]]
    /\ UNCHANGED <<todos, nextId, clock>>

\* the k-th statement is executed, the six in any order; after the last the
\* counts are returned
GetTodoStatsCount(p, k, fail) ==
    /\ ops[p].pc = "stats"
    /\ ops[p].counts[k] = Undefined
    /\ LET o == [ops[p] EXCEPT !.stmts = @ + 1,
                               !.counts[k] = Some(CountWhere(todos, StatsQueries[k]))]
       IN  ops' = [ops EXCEPT ![p] =
                IF fail THEN Done(o, DatabaseError)
                ELSE IF \E n \in 1..Len(StatsQueries) : o.counts[n] = Undefined THEN o
                ELSE Done(o, ReturnStats([total |-> Val(o.counts[1]),
                                          completed |-> Val(o.counts[2]),
                                          pending |-> Val(o.counts[3]),
                                          low |-> Val(o.counts[4]),
                                          medium |-> Val(o.counts[5]),
                                          high |-> Val(o.counts[6])]))]
    /\ UNCHANGED <<todos, nextId, clock>>

-----------------------------------------------------------------------------
(* errors.ts: values that can be thrown, and getErrorMessage               *)

\* a thrown value: an object of a class with a message, a string, or null
ErrorObject(class, message) == [type |-> "object", class |-> class, message |-> message]
StringValue(text) == [type |-> "string", class |-> "", message |-> text]
NullValue == [type |-> "null", class |-> "", message |-> <<>>]

\* class ... extends ...
Superclass(class) ==
    CASE class \in {"ValidationError", "NotFoundError", "DatabaseError"} -> "TodoError"
      [] class \in {"TodoError", "TypeError"} -> "Error"
      [] OTHER -> "Object"

RECURSIVE Extends(_, _)
Extends(class, c) ==
    \/ class = c
    \/ class # "Object" /\ Extends(Superclass(class), c)

\* error instanceof c
InstanceOf(error, c) == error.type = "object" /\ Extends(error.class, c)

\* new NotFoundError(resource, id): id is {} when it is not given
NotFoundError(resource, id) ==
    ErrorObject("NotFoundError",
        IF id # {} /\ Val(id) # 0 THEN <<resource, " with id ", ToString(Val(id)), " not found">>
        ELSE <<resource, " not found">>)

\* new DatabaseError(message, originalError): only the stack of the original is kept
NewDatabaseError(message, originalError) == ErrorObject("DatabaseError", message)

Unexpected == <<"An unexpected error occurred">>
Unknown == <<"An unknown error occurred">>

\* a variant that shows the message of every Error
getErrorMessageOfEveryError(error) ==
    IF InstanceOf(error, "Error") THEN error.message
    ELSE Unknown

getErrorMessage(error) ==
    IF InstanceOf(error, "TodoError") THEN error.message
    ELSE IF InstanceOf(error, "Error") THEN Unexpected
    ELSE Unknown

GetErrorMessageCall(p, error) ==
    /\ ops[p].pc = "idle"
    /\ ops' = [ops EXCEPT ![p] =
            Done([Call("getErrorMessage", NaN, <<>>, NoData) EXCEPT !.error = Some(error)],
                 ReturnMessage(getErrorMessage(error)))]
    /\ UNCHANGED <<todos, nextId, clock>>

-----------------------------------------------------------------------------
(* parseInt, isNaN, Math.min                                               *)

Digits == <<"0", "1", "2", "3", "4", "5", "6", "7", "8", "9">>

IsDigit(c) == \E k \in DOMAIN Digits : Digits[k] = c

DigitValue(c) == (CHOOSE k \in DOMAIN Digits : Digits[k] = c) - 1

\* the longest run of digits cs starts with
RECURSIVE LeadingDigits(_)
LeadingDigits(cs) ==
    IF cs # <<>> /\ IsDigit(Head(cs)) THEN <<Head(cs)>> \o LeadingDigits(Tail(cs))
    ELSE <<>>

RECURSIVE DecimalValue(_)
DecimalValue(ds) ==
    IF ds = <<>> THEN 0
    ELSE 10 * DecimalValue(SubSeq(ds, 1, Len(ds) - 1)) + DigitValue(ds[Len(ds)])

\* parseInt(s) of a decimal text: leading white space, a sign, digits; what
\* follows the digits is ignored, and without a digit the result is NaN
parseInt(s) ==
    LET cs == Chars(TrimStart(s))
        signed == cs # <<>> /\ Head(cs) \in {"-", "+"}
        ds == LeadingDigits(IF signed THEN Tail(cs) ELSE cs)
    IN  IF ds = <<>> THEN NaN
        ELSE IF signed /\ Head(cs) = "-" THEN Int_(0 - DecimalValue(ds))
        ELSE Int_(DecimalValue(ds))

\* parseInt(null) reads the text "null"
parseIntOf(entry) == IF entry = Null THEN NaN ELSE parseInt(Val(entry))

isNaN(n) == n.kind = "nan"

\* Math.min of two numbers that are whole or NaN
MathMin(a, b) ==
    IF isNaN(a) \/ isNaN(b) THEN NaN
    ELSE IF a.v < b.v THEN a ELSE b

-----------------------------------------------------------------------------
(* routes/todos.tsx, action: a posted form                                 *)

\* a form field whose value is an uploaded file, not a string: written as a
\* run of no characters, which no string has
File == <<Run("File", 0)>>

\* value || fallback, for a form entry that is a string or null
OrElse(entry, fallback) == IF entry = Null \/ ~Truthy(Val(entry)) THEN fallback ELSE entry

\* priority || "medium"
PriorityOrMedium(entry) == IF entry = Null \/ Val(entry) = "" THEN Some("medium") ELSE entry

\* case "create"
ActionCreate(c, request, now) ==
    LET data == Data(request.title, OrElse(request.description, Undefined), Undefined,
                     PriorityOrMedium(request.priority))
    IN  IF request.title = Some(File) THEN Done(c, TypeError)
        ELSE CreateTodoPrefix([c EXCEPT !.data = data], data, now)

\* case "toggle"
ActionToggle(c, request, now) ==
    LET id == parseIntOf(request.id)
        completed == request.completed = Some("true")
        data == Data(Undefined, Undefined, Some(~completed), Undefined)
    IN  IF isNaN(id) THEN Done(c, NoRes)
        ELSE UpdateTodoPrefix([c EXCEPT !.id = id, !.data = data], id, data, now, "update")

\* case "delete"
ActionDelete(c, request) ==
    LET id == parseIntOf(request.id)
    IN  IF isNaN(id) THEN Done(c, NoRes)
        ELSE IF ~IsValidId(id) THEN Done([c EXCEPT !.id = id], ValidationError("id"))
        ELSE [c EXCEPT !.id = id, !.pc = "delete"]

\* case "update": a title that is null is not undefined, and is rejected as empty
ActionUpdate(c, request, now) ==
    LET id == parseIntOf(request.id)
        data == Data(request.title, OrElse(request.description, Undefined), Undefined,
                     PriorityOrMedium(request.priority))
        d == [c EXCEPT !.id = id, !.data = data]
    IN  IF isNaN(id) THEN Done(c, NoRes)
        ELSE IF ~IsValidId(id) THEN Done(d, ValidationError("id"))
        ELSE IF request.title = Null THEN Done(d, ValidationError("title"))
        ELSE IF request.title = Some(File) THEN Done(d, TypeError)
        ELSE UpdateTodoPrefix(d, id, data, now, "update")

\* action, from the posted form to the await of the data-access call
ActionCall(p, request) ==
    /\ ops[p].pc = "idle"
    /\ LET c == [Call("action", NaN, <<>>, NoData) EXCEPT !.request = request]
       IN  ops' = [ops EXCEPT ![p] =
                CASE request.intent = Some("create") -> ActionCreate(c, request, clock)
                  [] request.intent = Some("toggle") -> ActionToggle(c, request, clock)
                  [] request.intent = Some("delete") -> ActionDelete(c, request)
                  [] request.intent = Some("update") -> ActionUpdate(c, request, clock)
                  [] OTHER -> Done(c, NoRes)]
    /\ UNCHANGED <<todos, nextId, clock>>

\* the message of the ValidationError the data-access call of action o threw
ValidationMessage(o) ==
    CASE o.res.field = "id" -> <<"Invalid todo ID">>
      [] o.res.field = "title" /\ TitleMissing(o.data.title) ->
            IF o.request.intent = Some("create") THEN <<"Title is required">>
            ELSE <<"Title cannot be empty">>
      [] o.res.field = "title" /\ ~TitleMissing(o.data.title) ->
            <<"Title must be 255 characters or less">>
      [] o.res.field = "description" -> <<"Description must be 1000 characters or less">>
      [] OTHER -> <<"Priority must be low, medium, or high">>

\* the message of the DatabaseError the data-access call of action o threw
DatabaseMessage(o) ==
    CASE o.request.intent = Some("create") -> <<"Failed to create todo">>
      [] o.request.intent = Some("delete") -> <<"Failed to delete todo with id ", ToString(o.id.v)>>
      [] OTHER -> <<"Failed to update todo with id ", ToString(o.id.v)>>

\* what the engine says when a statement fails
EngineMessage == <<"D1_ERROR: statement failed">>

\* the value the catch clause of action o has caught
Thrown(o) ==
    CASE o.res.err = "ValidationError" -> ErrorObject("ValidationError", ValidationMessage(o))
      [] o.res.err = "DatabaseError" ->
            NewDatabaseError(DatabaseMessage(o), ErrorObject("Error", EngineMessage))
      [] OTHER -> ErrorObject("TypeError", <<"data.title.trim is not a function">>)

Success(text) == [success |-> <<text>>, error |-> <<>>]
Failure(message) == [success |-> <<>>, error |-> message]

\* the value action o returns, once its data-access call has completed
ActionReturn(o) ==
    IF o.res.err # "none" THEN Failure(getErrorMessage(Thrown(o)))
    ELSE CASE o.request.intent = Some("create") -> Success("Todo created successfully")
           [] o.request.intent \in {Some("toggle"), Some("update")} ->
                 IF isNaN(parseIntOf(o.request.id)) THEN Failure(<<"Invalid todo ID">>)
                 ELSE IF o.res.row = Null THEN Failure(<<"Todo not found">>)
                 ELSE Success("Todo updated successfully")
           [] o.request.intent = Some("delete") ->
                 IF isNaN(parseIntOf(o.request.id)) THEN Failure(<<"Invalid todo ID">>)
                 ELSE IF ~o.res.flag THEN Failure(<<"Todo not found or could not be deleted">>)
                 ELSE Success("Todo deleted successfully")
           [] OTHER -> Failure(<<"Invalid action">>)

-----------------------------------------------------------------------------
(* routes/todos.tsx, loader: the parameters of the request URL             *)

\* a parameter that is a word (completed, priority, sort, order), or fallback
\* when it is null or empty
WordOr(entry, fallback) == IF entry = Null \/ Val(entry) = "" THEN fallback ELSE Val(entry)

LoaderFilter(request) ==
    Filter(IF request.completed # Null THEN Some(request.completed = Some("true"))
           ELSE Undefined,
           IF WordOr(request.priority, "") \in Priorities THEN request.priority
           ELSE Undefined,
           OrElse(request.search, Undefined))

LoaderSort(request) ==
    Sort(WordOr(request.sort, "createdAt"), WordOr(request.order, "desc"))

Fifty == <<Run("5", 1), Run("0", 1)>>
Zero == <<Run("0", 1)>>
MaxItems == 100

\* Math.min(parseInt(limit || "50"), 100)
LoaderLimit(request) == MathMin(parseInt(Val(OrElse(request.limit, Some(Fifty)))), Int_(MaxItems))

\* parseInt(offset || "0")
LoaderOffset(request) == parseInt(Val(OrElse(request.offset, Some(Zero))))

\* loader up to its await: getAllTodos and getTodoStats are called, and their
\* seven statements are issued
LoaderCall(p, request) ==
    /\ ops[p].pc = "idle"
    /\ ops' = [ops EXCEPT ![p] =
            [Call("loader", NaN, <<>>, NoData) EXCEPT
                !.pc = "loader", !.request = request,
                !.filter = LoaderFilter(request),
                !.sort = Some(LoaderSort(request)),
                !.pagination = Some(Pagination(LoaderLimit(request), LoaderOffset(request))),
                !.counts = [k \in 1..Len(StatsQueries) |-> Undefined]]]
    /\ UNCHANGED <<todos, nextId, clock>>

\* the statements of loader o that have not been executed
LoaderPending(o) ==
    {k \in 1..Len(StatsQueries) : o.counts[k] = Undefined} \cup (IF o.j = 0 THEN {0} ELSE {})

\* loader o after one more statement: the catch clause when it failed, the
\* return when it was the last one
LoaderAfter(o, failed) ==
    IF failed THEN Done(o, DatabaseError)
    ELSE IF LoaderPending(o) # {} THEN o
    ELSE Done(o, [NoRes EXCEPT !.rows = o.res.rows,
                               !.stats = [total |-> Val(o.counts[1]),
                                          completed |-> Val(o.counts[2]),
                                          pending |-> Val(o.counts[3]),
                                          low |-> Val(o.counts[4]),
                                          medium |-> Val(o.counts[5]),
                                          high |-> Val(o.counts[6])]])

\* the select of getAllTodos is executed; a LIMIT or OFFSET that is no integer
\* is a datatype mismatch
LoaderSelect(p, fail) ==
    /\ ops[p].pc = "loader"
    /\ ops[p].j = 0
    /\ LET o == [ops[p] EXCEPT !.stmts = @ + 1, !.j = 1]
           limit == Val(o.pagination).limit
           offset == Val(o.pagination).offset
       IN  IF fail \/ isNaN(limit) \/ isNaN(offset)
           THEN ops' = [ops EXCEPT ![p] = LoaderAfter(o, TRUE)]
           ELSE \E r \in Query(todos, o.filter, o.sort, Some(Pagination(limit.v, offset.v))) :
                    ops' = [ops EXCEPT ![p] = LoaderAfter([o EXCEPT !.res.rows = r], FALSE)]
    /\ UNCHANGED <<todos, nextId, clock>>

\* the k-th count of getTodoStats is executed
LoaderCount(p, k, fail) ==
    /\ ops[p].pc = "loader"
    /\ ops[p].counts[k] = Undefined
    /\ LET o == [ops[p] EXCEPT !.stmts = @ + 1,
                               !.counts[k] = Some(CountWhere(todos, StatsQueries[k]))]
       IN  ops' = [ops EXCEPT ![p] = LoaderAfter(o, fail)]
    /\ UNCHANGED <<todos, nextId, clock>>

\* the value loader o returns
LoaderReturn(o) ==
    IF o.res.err # "none"
    THEN [todos |-> <<>>, stats |-> NoStats, error |-> <<"Failed to load todos">>]
    ELSE [todos |-> o.res.rows, stats |-> o.res.stats, error |-> <<>>]

-----------------------------------------------------------------------------
(* The environment                                                         *)

\* time passes
Tick(d) ==
    /\ clock + d <= MaxClock
    /\ clock' = clock + d
    /\ UNCHANGED <<todos, nextId, ops>>

\* the caller has taken the outcome of a completed call; the slot is free again
Return(p) ==
    /\ ops[p].pc = "done"
    /\ ops' = [ops EXCEPT ![p] = Idle]
    /\ UNCHANGED <<todos, nextId, clock>>

Init ==
    /\ todos = <<>>
    /\ nextId = 1
    /\ clock = 0
    /\ ops = [p \in Slots |-> Idle]

-----------------------------------------------------------------------------
(* Scheduling and bounds shared by the specifications                      *)

DbOutcomes == BOOLEAN    \* whether the storage engine fails the statement

\* The outcome of a completed call stays in its slot until Return.  Return
\* changes nothing of the program, so taking every outcome at once loses no
\* behaviour of the table.
NoOutcomePending == \A q \in Slots : ops[q].pc # "done"

\* a createTodo that passes validation is started only while its row fits
Room(data, max) ==
    \/ CreateInvalidField(data) # ""
    \/ nextId + Cardinality({q \in Slots : ops[q].pc = "insert"}) <= max

Empty == <<>>
Blank == <<Run(" ", 2)>>
Rep(c, k) == <<Run(c, k)>>
Padded(s) == <<Run(" ", 1)>> \o s \o <<Run(" ", 1)>>
LeftPadded(s) == <<Run(" ", 1)>> \o s

-----------------------------------------------------------------------------
(* Spec: calls that overlap, statement by statement, with short strings    *)

Ids == {Int_(k) : k \in 1..MaxRows} \cup {Int_(0)}

Creates == {Data(Some(Padded(Rep("a", 1))), Undefined, Undefined, Undefined)}

Updates == {Data(Undefined, Undefined, Some(TRUE), Undefined)}

BulkUpdates == {Data(Undefined, Undefined, Some(FALSE), Undefined)}

BulkIds == {<<>>, <<Int_(1), Int_(2)>>, <<Int_(2), Int_(2)>>, <<Int_(1), Int_(0)>>}

\* slots are interchangeable: a call takes the lowest free one
LowestFree(p) == ops[p].pc = "idle" /\ \A q \in Slots : q < p => ops[q].pc # "idle"

Next ==
    \/ \E d \in TickSteps : Tick(d)
    \/ \E p \in Slots : Return(p)
    \/ /\ NoOutcomePending
       /\ \E p \in Slots :
            /\ ops[p].pc = "idle" => LowestFree(p)
            /\ \/ \E data \in Creates : Room(data, MaxRows) /\ CreateTodoCall(p, data)
               \/ \E fail \in DbOutcomes : CreateTodoInsert(p, fail)
               \/ \E id \in Ids : GetTodoByIdCall(p, id)
               \/ \E fail \in DbOutcomes : GetTodoByIdSelect(p, fail)
               \/ \E id \in Ids, data \in Updates : UpdateTodoCall(p, id, data)
               \/ \E fail \in DbOutcomes : UpdateTodoWrite(p, fail)
               \/ \E id \in Ids : DeleteTodoCall(p, id)
               \/ \E fail \in DbOutcomes : DeleteTodoWrite(p, fail)
               \/ \E id \in Ids : ToggleTodoCompleteCall(p, id)
               \/ \E fail \in DbOutcomes : ToggleTodoCompleteSelect(p, fail)
               \/ ToggleTodoCompleteResume(p)
               \/ \E fail \in DbOutcomes : ToggleTodoCompleteWrite(p, fail)
               \/ \E ids \in BulkIds, updates \in BulkUpdates : BulkUpdateTodosCall(p, ids, updates)
               \/ \E fail \in DbOutcomes : BulkUpdateTodosStep(p, fail)

Spec == Init /\ [][Next]_vars

-----------------------------------------------------------------------------
(* SpecSeq: every operation, one call at a time, with every kind of id     *)

ValidIds == {Int_(k) : k \in 1..MaxRows}
InvalidIds == {Int_(0), Int_(-1), Frac(1), NaN}

UpdatesSeq ==
    {Data(Undefined, Undefined, Some(TRUE), Undefined),
     Data(Some(Empty), Undefined, Undefined, Undefined)}

BulkUpdatesSeq == {Data(Some(Blank), Undefined, Undefined, Undefined)}

BulkIdsSeq ==
    {<<>>, <<Int_(1), Int_(2)>>, <<Int_(1), Int_(0)>>, <<Frac(1), Int_(1)>>,
     <<Int_(2), NaN>>, <<Int_(-1)>>}

NextSeq ==
    \/ \E d \in TickSteps : Tick(d)
    \/ Return(1)
    \/ \E data \in Creates : Room(data, MaxRows) /\ CreateTodoCall(1, data)
    \/ \E fail \in DbOutcomes : CreateTodoInsert(1, fail)
    \/ \E id \in ValidIds \cup InvalidIds : GetTodoByIdCall(1, id)
    \/ \E fail \in DbOutcomes : GetTodoByIdSelect(1, fail)
    \/ \E id \in ValidIds \cup InvalidIds, data \in UpdatesSeq : UpdateTodoCall(1, id, data)
    \/ \E fail \in DbOutcomes : UpdateTodoWrite(1, fail)
    \/ \E id \in ValidIds \cup InvalidIds : DeleteTodoCall(1, id)
    \/ \E fail \in DbOutcomes : DeleteTodoWrite(1, fail)
    \/ \E id \in ValidIds \cup InvalidIds : ToggleTodoCompleteCall(1, id)
    \/ \E fail \in DbOutcomes : ToggleTodoCompleteSelect(1, fail)
    \/ ToggleTodoCompleteResume(1)
    \/ \E fail \in DbOutcomes : ToggleTodoCompleteWrite(1, fail)
    \/ \E ids \in BulkIdsSeq, updates \in BulkUpdatesSeq : BulkUpdateTodosCall(1, ids, updates)
    \/ \E fail \in DbOutcomes : BulkUpdateTodosStep(1, fail)

SpecSeq == Init /\ [][NextSeq]_vars

-----------------------------------------------------------------------------
(* Stored titles and priorities                                            *)

TitleOk(t) == Length(Trim(t)) > 0 /\ Length(t) <= MaxTitleLength

\* C1: in every state reachable by createTodo, updateTodo, toggleTodoComplete,
\* bulkUpdateTodos and deleteTodo calls, every stored todo has a title that is
\* non-empty after trimming and at most 255 characters long, and a priority
\* that is low, medium or high.
C1_StoredTitleAndPriorityValid ==
    \A k \in DOMAIN todos : TitleOk(todos[k].title) /\ todos[k].priority \in Priorities

-----------------------------------------------------------------------------
(* Ids that are not positive integers                                      *)

PositiveInteger(id) == id.kind = "int" /\ id.v > 0

IdTaking == {"getTodoById", "updateTodo", "deleteTodo", "toggleTodoComplete"}

\* the call of slot o was given an id that is not a positive integer
GivenInvalidId(o) ==
    \/ o.op \in IdTaking /\ ~PositiveInteger(o.id)
    \/ o.op = "bulkUpdateTodos" /\ \E k \in 1..Len(o.ids) : ~PositiveInteger(o.ids[k])

RejectedForId(o) ==
    o.pc = "done" /\ o.res.err = "ValidationError" /\ o.res.field = "id" /\ o.stmts = 0

\* C2: given an id that is not a positive integer (zero, negative, non-integral,
\* NaN), anywhere in the list for bulkUpdateTodos, each id-taking operation
\* fails with a ValidationError on field id before any statement is executed,
\* and the step that starts the call leaves the table as it was.
C2_InvalidIdRejectedBeforeStorage ==
    /\ [](\A p \in Slots : GivenInvalidId(ops[p]) => RejectedForId(ops[p]))
    /\ [][\A p \in Slots :
            (ops[p].pc = "idle" /\ GivenInvalidId(ops'[p]))
                => (todos' = todos /\ nextId' = nextId)]_vars

\* an id list whose invalid id follows a valid one was rejected while rows are stored
C2_Witness ==
    \E p \in Slots :
        /\ ops[p].op = "bulkUpdateTodos" /\ ops[p].ids = <<Int_(1), Int_(0)>>
        /\ RejectedForId(ops[p])
        /\ 1 \in DOMAIN todos

-----------------------------------------------------------------------------
(* SpecCreate: createTodo with titles, descriptions and priorities at and  *)
(* around the limits, and getTodoById reading back; one call at a time.    *)
(* Slot 1 holds the createTodo calls and slot 2 the getTodoById calls, so  *)
(* the outcome of a createTodo is still there when the next call returns.  *)

A1 == Rep("a", 1)
D1 == Rep("d", 1)

CreatesRich ==
    {Data(t, Undefined, Undefined, Undefined) :
        t \in {Undefined, Some(Empty), Some(Blank), Some(Padded(A1)),
               Some(Rep("a", MaxTitleLength)), Some(Padded(Rep("a", MaxTitleLength))),
               Some(Rep("a", MaxTitleLength + 1))}}
    \cup
    {Data(Some(A1), Some(d), Undefined, Undefined) :
        d \in {Empty, Blank, Padded(D1), Rep("d", MaxDescriptionLength),
               Rep("d", MaxDescriptionLength + 1)}}
    \cup
    {Data(Some(A1), Undefined, Undefined, Some(p)) : p \in {"", "low", "high", "urgent"}}
    \cup
    {Data(Some(Rep("a", MaxTitleLength + 1)), Some(Rep("d", MaxDescriptionLength + 1)),
          Undefined, Some("urgent")),
     Data(Some(A1), Some(Rep("d", MaxDescriptionLength + 1)), Undefined, Some("urgent")),
     Data(Some(A1), Some(LeftPadded(Rep("d", MaxDescriptionLength))), Undefined, Some("urgent")),
     Data(Some(Padded(A1)), Some(Blank), Undefined, Some(""))}

\* no call is in flight
Quiet == \A q \in Slots : ops[q].pc \in {"idle", "done"}

NextCreate ==
    \/ \E d \in TickSteps : Tick(d)
    \/ \E p \in Slots : Return(p)
    \/ \E data \in CreatesRich : Quiet /\ Room(data, MaxRows) /\ CreateTodoCall(1, data)
    \/ \E fail \in DbOutcomes : CreateTodoInsert(1, fail)
    \/ \E id \in ValidIds : Quiet /\ GetTodoByIdCall(2, id)
    \/ \E fail \in DbOutcomes : GetTodoByIdSelect(2, fail)

SpecCreate == Init /\ [][NextCreate]_vars

-----------------------------------------------------------------------------
(* SpecUpdate: updateTodo of the first row with every shape of partial     *)
(* data, one call at a time; the second row is there to be left alone.     *)

B1 == Rep("b", 1)
E1 == Rep("e", 1)

CreatesUpdate ==
    {Data(Some(Padded(A1)), Some(Padded(D1)), Undefined, Some("high")),
     Data(Some(A1), Some(Rep("d", MaxDescriptionLength)), Undefined, Undefined),
     Data(Some(A1), Some(LeftPadded(Rep("d", MaxDescriptionLength))), Undefined, Undefined)}

UpdatesRich ==
    {NoData}
    \cup
    {Data(Some(t), Undefined, Undefined, Undefined) :
        t \in {Empty, Blank, Padded(B1), Rep("b", MaxTitleLength + 1)}}
    \cup
    {Data(Undefined, Some(d), Undefined, Undefined) :
        d \in {Empty, Blank, Padded(E1), LeftPadded(Rep("e", MaxDescriptionLength)),
               Rep("e", MaxDescriptionLength + 1)}}
    \cup
    {Data(Undefined, Undefined, Undefined, Some(p)) : p \in {"low", "", "urgent"}}
    \cup
    {Data(Undefined, Undefined, Some(TRUE), Undefined),
     Data(Some(Padded(B1)), Some(Padded(E1)), Some(TRUE), Some("low")),
     Data(Some(Blank), Some(Rep("e", MaxDescriptionLength + 1)), Undefined, Some("urgent"))}

\* the first row, and an id no row ever gets
UpdateIds == {Int_(1), Int_(MaxRows + 1)}

NextUpdate ==
    \/ \E d \in TickSteps : Tick(d)
    \/ Return(1)
    \/ \E data \in CreatesUpdate : Room(data, MaxRows) /\ CreateTodoCall(1, data)
    \/ \E fail \in DbOutcomes : CreateTodoInsert(1, fail)
    \/ \E id \in UpdateIds, data \in UpdatesRich : UpdateTodoCall(1, id, data)
    \/ \E fail \in DbOutcomes : UpdateTodoWrite(1, fail)

SpecUpdate == Init /\ [][NextUpdate]_vars

-----------------------------------------------------------------------------
(* createTodo: what it rejects                                             *)

TitleRejected(d) ==
    \/ d.title = Undefined
    \/ Length(Trim(Val(d.title))) = 0
    \/ Length(Trim(Val(d.title))) > 255

\* the description as given is longer than 1000 characters
DescriptionRejected(d) == d.description # Undefined /\ Length(Val(d.description)) > 1000

PriorityNotOneOfThree(d) == d.priority # Undefined /\ Val(d.priority) \notin Priorities

PriorityNotOneOfThreeNorEmpty(d) == PriorityNotOneOfThree(d) /\ Val(d.priority) # ""

\* the first invalid field in the order title, description, priority, or ""
FirstRejected(d, priorityRejected) ==
    IF TitleRejected(d) THEN "title"
    ELSE IF DescriptionRejected(d) THEN "description"
    ELSE IF priorityRejected THEN "priority"
    ELSE ""

\* the createTodo of slot o, given data whose first invalid field is f, ended
\* with a ValidationError naming f before any statement; a title of 255
\* characters with nothing else invalid is no ValidationError
CreateRejects(o, f) ==
    /\ f # "" => /\ o.pc = "done"
                 /\ o.res.err = "ValidationError"
                 /\ o.res.field = f
                 /\ o.stmts = 0
    /\ (f = "" /\ o.pc = "done") => o.res.err # "ValidationError"

\* C3 as stated: createTodo fails with a ValidationError naming the field, and
\* inserts no row, when the title is missing, empty, whitespace-only or longer
\* than 255 characters after trimming (256 fails, 255 succeeds), or when a
\* priority is present that is not low, medium or high; of several invalid
\* fields the error names the first of title, description, priority.
C3_CreateRejectsAsStated ==
    \A p \in Slots : ops[p].op = "createTodo" =>
        CreateRejects(ops[p], FirstRejected(ops[p].data, PriorityNotOneOfThree(ops[p].data)))

\* C3 amended: the same, for a priority that is present, not the empty string
\* and not low, medium or high; with an empty-string priority and nothing else
\* invalid the todo is created with priority medium.  The step that rejects
\* the call leaves the table as it was.
C3_CreateRejects ==
    /\ [](\A p \in Slots : ops[p].op = "createTodo" =>
            LET d == ops[p].data
                f == FirstRejected(d, PriorityNotOneOfThreeNorEmpty(d))
            IN  /\ CreateRejects(ops[p], f)
                /\ (f = "" /\ d.priority = Some("") /\ ops[p].res.row # Null)
                        => Val(ops[p].res.row).priority = "medium")
    /\ [][\A p \in Slots :
            (ops'[p].op = "createTodo" /\ ops'[p].res.err = "ValidationError")
                => (todos' = todos /\ nextId' = nextId)]_vars

\* a call with a title of 256 characters, a description of 1001 and an unknown
\* priority was rejected for its title
C3_Witness ==
    \E p \in Slots :
        /\ ops[p].op = "createTodo" /\ ops[p].pc = "done"
        /\ ops[p].data = Data(Some(Rep("a", 256)), Some(Rep("d", 1001)), Undefined, Some("urgent"))
        /\ ops[p].res.err = "ValidationError" /\ ops[p].res.field = "title"
        /\ DOMAIN todos # {}

-----------------------------------------------------------------------------
(* createTodo: what it stores and returns                                  *)

\* the description createTodo is to store: null when absent, empty or blank
ExpectedDescription(d) ==
    IF d.description = Undefined THEN Null
    ELSE IF Length(Trim(Val(d.description))) = 0 THEN Null
    ELSE Some(Trim(Val(d.description)))

\* r is the todo a successful createTodo with data d is to return
CreatedAsAsked(d, r) ==
    /\ r.title = Trim(Val(d.title))
    /\ r.description = ExpectedDescription(d)
    /\ d.priority = Undefined => r.priority = "medium"
    /\ (d.priority # Undefined /\ Val(d.priority) \in Priorities) => r.priority = Val(d.priority)
    /\ r.completed = FALSE
    /\ r.createdAt = r.updatedAt

\* the step stores exactly the row r, under an id no row had
StoresOneNewRow(r) ==
    /\ r.id \notin DOMAIN todos
    /\ DOMAIN todos' = DOMAIN todos \cup {r.id}
    /\ \A k \in DOMAIN todos : todos'[k] = todos[k]
    /\ ToTodo(todos'[r.id]) = r

\* slot p holds the outcome of a call that returned a value, with no write since
Fresh(p, op) ==
    ops[p].op = op /\ ops[p].pc = "done" /\ ops[p].res.err = "none" /\ ~ops[p].dirty

\* C5: a successful createTodo stores exactly one new row, with the trimmed
\* title, the trimmed description (null when absent, empty or blank), priority
\* medium when none was given, completed false and createdAt = updatedAt, and
\* returns it with its new id; getTodoById on that id directly afterwards
\* returns an equal record.
C5_CreateStoresAndReturns ==
    /\ [][\A p \in Slots :
            (ops[p].pc = "insert" /\ ops'[p].pc = "done" /\ ops'[p].res.err = "none")
                => /\ ops'[p].res.row # Null
                   /\ CreatedAsAsked(ops[p].data, Val(ops'[p].res.row))
                   /\ StoresOneNewRow(Val(ops'[p].res.row))]_vars
    /\ [](\A p, q \in Slots :
            (/\ Fresh(p, "createTodo") /\ Fresh(q, "getTodoById")
             /\ ops[q].id.v = Val(ops[p].res.row).id)
                => ops[q].res.row = ops[p].res.row)

\* a todo created from a padded title and a blank description was read back
C5_Witness ==
    \E p, q \in Slots :
        /\ Fresh(p, "createTodo") /\ Fresh(q, "getTodoById")
        /\ ops[p].data = Data(Some(Padded(A1)), Some(Blank), Undefined, Some(""))
        /\ ops[q].id.v = Val(ops[p].res.row).id
        /\ ops[q].res.row = ops[p].res.row
        /\ Val(ops[q].res.row).createdAt > 0

-----------------------------------------------------------------------------
(* The bound on the description                                            *)

TrimmedLength(m) == Length(Trim(Val(m)))

RejectedFor(o, f) == o.pc = "done" /\ o.res.err = "ValidationError" /\ o.res.field = f

\* nothing before the description check fails in the call of slot o
PassesUpToDescription(o) ==
    \/ o.op = "createTodo" /\ ~TitleRejected(o.data)
    \/ /\ o.op = "updateTodo" /\ PositiveInteger(o.id)
       /\ o.data.title = Undefined \/ ~TitleRejected(o.data)

\* C4: the bound of 1000 characters is on the trimmed description: createTodo
\* and updateTodo accept every description whose trimmed length is at most
\* 1000 and reject with a ValidationError on field description every
\* description whose trimmed length is above 1000.
C4_DescriptionBoundAfterTrimming ==
    \A p \in Slots :
        (ops[p].op \in {"createTodo", "updateTodo"} /\ ops[p].data.description # Undefined)
            => /\ TrimmedLength(ops[p].data.description) <= 1000
                    => ~RejectedFor(ops[p], "description")
               /\ (TrimmedLength(ops[p].data.description) > 1000 /\ PassesUpToDescription(ops[p]))
                    => RejectedFor(ops[p], "description")

-----------------------------------------------------------------------------
(* updateTodo: what it writes                                              *)

\* the partial data is valid: each field present meets the constraint of its field
ValidPartial(d) ==
    /\ d.title = Undefined \/ ~TitleRejected(d)
    /\ ~DescriptionRejected(d)
    /\ ~PriorityNotOneOfThree(d)

\* slot p's updateTodo has its statement executed and returns a value in this step
UpdateReturns(p) ==
    /\ ops[p].op = "updateTodo" /\ ops[p].pc = "update"
    /\ ops'[p].pc = "done" /\ ops'[p].res.err = "none"

\* new is old with exactly the fields present in d replaced, strings trimmed
\* and an empty description stored as null or as the empty string
FieldsReplaced(d, old, new) ==
    /\ new.id = old.id
    /\ new.createdAt = old.createdAt
    /\ new.title = IF d.title # Undefined THEN Trim(Val(d.title)) ELSE old.title
    /\ IF d.description = Undefined THEN new.description = old.description
       ELSE IF TrimmedLength(d.description) = 0 THEN new.description \in {Null, Some(Empty)}
       ELSE new.description = Some(Trim(Val(d.description)))
    /\ new.completed = IF d.completed # Undefined THEN Val(d.completed) ELSE old.completed
    /\ new.priority = IF d.priority # Undefined THEN Val(d.priority) ELSE old.priority

\* C6: with a valid id and valid data, updateTodo on an existing row changes
\* exactly the fields present in the partial data (title and description
\* trimmed) and updatedAt, which is set to the time of the call also when the
\* data is empty; absent fields, id and createdAt keep their values and the
\* other rows are unchanged.  When no row has the id it returns null and
\* changes nothing.
C6_UpdateChangesExactlyGivenFields ==
    [][\A p \in Slots :
        (UpdateReturns(p) /\ ValidPartial(ops[p].data)) =>
            LET k == ops[p].id.v
            IN  IF k \in DOMAIN todos
                THEN /\ DOMAIN todos' = DOMAIN todos
                     /\ \A j \in DOMAIN todos \ {k} : todos'[j] = todos[j]
                     /\ FieldsReplaced(ops[p].data, todos[k], todos'[k])
                     /\ todos'[k].updatedAt = ToDriver(Val(ops[p].set.updatedAt))
                     /\ ops'[p].res.row = Some(ToTodo(todos'[k]))
                ELSE ops'[p].res.row = Null /\ todos' = todos]_vars

\* C7: updateTodo with a description that is present but empty or blank stores
\* null as the description of the row, as createTodo does.
C7_UpdateBlankDescriptionStoresNull ==
    [][\A p \in Slots :
        (/\ UpdateReturns(p) /\ ops[p].id.v \in DOMAIN todos
         /\ ops[p].data.description # Undefined
         /\ TrimmedLength(ops[p].data.description) = 0)
            => todos'[ops[p].id.v].description = Null]_vars

\* the first field of the partial data d that the claim has rejected, or ""
FirstRejectedPartial(d) ==
    IF d.title # Undefined /\ TitleRejected(d) THEN "title"
    ELSE IF DescriptionRejected(d) THEN "description"
    ELSE IF PriorityNotOneOfThree(d) THEN "priority"
    ELSE ""

\* C8: updateTodo fails with a ValidationError naming the field, and leaves the
\* row unchanged, when the title is present but empty, blank or longer than
\* 255 characters after trimming, when the description is longer than 1000
\* characters, or when a priority is present that is not low, medium or high.
C8_UpdateRejectsInvalidFields ==
    \A p \in Slots :
        (/\ ops[p].op = "updateTodo" /\ PositiveInteger(ops[p].id)
         /\ FirstRejectedPartial(ops[p].data) # "")
            => /\ RejectedFor(ops[p], FirstRejectedPartial(ops[p].data))
               /\ ops[p].stmts = 0

-----------------------------------------------------------------------------
(* Timestamps of the stored rows                                           *)

\* the rows a step keeps
Kept == DOMAIN todos \cap DOMAIN todos'

Mutators == {"updateTodo", "toggleTodoComplete", "bulkUpdateTodos"}

CreatedAtNeverChanges == \A k \in Kept : todos'[k].createdAt = todos[k].createdAt

UpdatedAtNotBeforeCreatedAt == \A k \in DOMAIN todos : todos[k].updatedAt >= todos[k].createdAt

\* C9: no update, toggle or bulk update changes a row's createdAt, and every
\* stored todo has updatedAt >= createdAt in every reachable state, whatever
\* the interleaving of the calls (the clock never goes back).
C9_CreatedAtFixedAndUpdatedAtNotBefore ==
    [][CreatedAtNeverChanges]_vars /\ []UpdatedAtNotBeforeCreatedAt

\* C10: a write of updateTodo, toggleTodoComplete or bulkUpdateTodos to a row
\* never decreases the row's updatedAt, also when such calls overlap.
C10_UpdatedAtNeverDecreases ==
    [][\A p \in Slots : \A k \in Kept :
          (ops[p].op \in Mutators /\ ops'[p].stmts = ops[p].stmts + 1)
              => todos'[k].updatedAt >= todos[k].updatedAt]_vars

-----------------------------------------------------------------------------
(* SpecDelete: createTodo and deleteTodo in slot 1, getTodoById in slot 2, *)
(* one call at a time                                                      *)

NextDelete ==
    \/ \E d \in TickSteps : Tick(d)
    \/ \E p \in Slots : Return(p)
    \/ \E data \in Creates : Quiet /\ Room(data, MaxRows) /\ CreateTodoCall(1, data)
    \/ \E fail \in DbOutcomes : CreateTodoInsert(1, fail)
    \/ \E id \in ValidIds : Quiet /\ DeleteTodoCall(1, id)
    \/ \E fail \in DbOutcomes : DeleteTodoWrite(1, fail)
    \/ \E id \in ValidIds : Quiet /\ GetTodoByIdCall(2, id)
    \/ \E fail \in DbOutcomes : GetTodoByIdSelect(2, fail)

SpecDelete == Init /\ [][NextDelete]_vars

-----------------------------------------------------------------------------
(* deleteTodo                                                              *)

\* the statement of slot p's call of op is executed and the call returns a value
Returns(p, op, pc) ==
    /\ ops[p].op = op /\ ops[p].pc = pc
    /\ ops'[p].pc = "done" /\ ops'[p].res.err = "none"

\* the step leaves every row other than row k as it was, and removes or adds none of them
OthersUnchanged(k) ==
    /\ DOMAIN todos' \ {k} = DOMAIN todos \ {k}
    /\ \A j \in DOMAIN todos \ {k} : todos'[j] = todos[j]

\* C11: deleteTodo with a valid id returns true exactly when a row with that id
\* existed; it then removes that row and no other, and a getTodoById on the id
\* that follows returns null.  When no row has the id it returns false and the
\* table is unchanged.
C11_DeleteRemovesExactlyItsRow ==
    /\ [][\A p \in Slots : Returns(p, "deleteTodo", "delete") =>
            LET k == ops[p].id.v
            IN  /\ ops'[p].res.flag = (k \in DOMAIN todos)
                /\ k \notin DOMAIN todos'
                /\ OthersUnchanged(k)
                /\ k \notin DOMAIN todos => todos' = todos]_vars
    /\ [](\A p, q \in Slots :
            (/\ Fresh(p, "deleteTodo") /\ Fresh(q, "getTodoById")
             /\ ops[q].id = ops[p].id)
                => ops[q].res.row = Null)

\* a row was deleted while another row stays, and was then looked up
C11_Witness ==
    \E p, q \in Slots :
        /\ Fresh(p, "deleteTodo") /\ ops[p].res.flag
        /\ Fresh(q, "getTodoById") /\ ops[q].id = ops[p].id /\ ops[q].res.row = Null
        /\ DOMAIN todos # {}

-----------------------------------------------------------------------------
(* toggleTodoComplete                                                      *)

\* C12: toggleTodoComplete, run with no other call in between, on an existing
\* id returns the row with completed negated and changes nothing else of the
\* row except updatedAt, and no other row; on a valid id that matches no row
\* it returns null with no error and changes nothing.
C12_ToggleNegatesCompleted ==
    /\ [][\A p \in Slots : Returns(p, "toggleTodoComplete", "toggleUpdate") =>
            LET k == ops[p].id.v
            IN  /\ k \in DOMAIN todos /\ k \in DOMAIN todos'
                /\ todos'[k] = [todos[k] EXCEPT !.completed = ~todos[k].completed,
                                                !.updatedAt = todos'[k].updatedAt]
                /\ OthersUnchanged(k)
                /\ ops'[p].res.row = Some(ToTodo(todos'[k]))]_vars
    /\ [][\A p \in Slots :
            (ops[p].op = "toggleTodoComplete" /\ ops[p].pc = "toggleRead"
                /\ ops'[p] # ops[p] /\ ops[p].id.v \notin DOMAIN todos)
                => (ops'[p].pc = "done" /\ ops'[p].res = ReturnRow(Null) /\ todos' = todos)]_vars
    /\ [][\A p \in Slots :
            (ops[p].op = "toggleTodoComplete" /\ ops[p].pc \in {"toggleSelect", "toggleRead"})
                => todos' = todos]_vars

\* a completed todo was toggled back to pending
C12_Witness ==
    \E p \in Slots :
        /\ ops[p].op = "toggleTodoComplete" /\ ops[p].pc = "done"
        /\ ops[p].res.row # Null
        /\ ~Val(ops[p].res.row).completed
        /\ Val(ops[p].res.row).updatedAt > Val(ops[p].res.row).createdAt

-----------------------------------------------------------------------------
(* bulkUpdateTodos: the empty list and lists with an invalid id            *)

BulkOf(o) == o.op = "bulkUpdateTodos"

\* C13: bulkUpdateTodos with an empty id list returns 0 without a statement
\* being executed; with a list that holds an invalid id at any position it
\* fails with a ValidationError and changes no row, the rows of the valid ids
\* before the invalid one included.
C13_BulkEmptyOrInvalidIdChangesNothing ==
    /\ [](\A p \in Slots : BulkOf(ops[p]) =>
            /\ ops[p].ids = <<>> =>
                  (ops[p].pc = "done" /\ ops[p].res = ReturnCount(0) /\ ops[p].stmts = 0)
            /\ (\E k \in 1..Len(ops[p].ids) : ~PositiveInteger(ops[p].ids[k])) =>
                  (ops[p].pc = "done" /\ ops[p].res.err = "ValidationError" /\ ops[p].stmts = 0))
    /\ [][\A p \in Slots :
            (BulkOf(ops'[p]) /\ ops'[p].pc = "done" /\ ops'[p].stmts = 0)
                => todos' = todos]_vars

\* a list with a valid id of a stored row before an invalid one was rejected
C13_Witness ==
    \E p \in Slots :
        /\ BulkOf(ops[p]) /\ ops[p].ids = <<Int_(1), Int_(0)>>
        /\ ops[p].pc = "done" /\ ops[p].res.err = "ValidationError"
        /\ 1 \in DOMAIN todos /\ todos[1].title = Trim(Padded(A1))

-----------------------------------------------------------------------------
(* SpecBulk: bulkUpdateTodos with id lists below, at and above the batch   *)
(* size, with repeated ids and with ids of no row; one call at a time      *)

\* the ids 1, 2, ..., n
UpTo(n) == [k \in 1..n |-> Int_(k)]

\* n ids of which the first and the last are id 1 and the others match no row
FirstAndLast(n) == [k \in 1..n |-> IF k \in {1, n} THEN Int_(1) ELSE Int_(MaxRows + 1)]

BulkIdsLong ==
    {<<Int_(1), Int_(2)>>, <<Int_(1), Int_(1)>>, <<Int_(MaxRows + 1), Int_(1)>>,
     UpTo(batchSize - 1), UpTo(batchSize), UpTo(batchSize + 1),
     FirstAndLast(batchSize + 1)}

BulkUpdatesLong == {Data(Undefined, Undefined, Some(TRUE), Some("high"))}

NextBulk ==
    \/ \E d \in TickSteps : Tick(d)
    \/ Return(1)
    \/ \E data \in Creates : Room(data, MaxRows) /\ CreateTodoCall(1, data)
    \/ \E fail \in DbOutcomes : CreateTodoInsert(1, fail)
    \/ \E id \in ValidIds : DeleteTodoCall(1, id)
    \/ \E fail \in DbOutcomes : DeleteTodoWrite(1, fail)
    \/ \E ids \in BulkIdsLong, updates \in BulkUpdatesLong : BulkUpdateTodosCall(1, ids, updates)
    \/ \E fail \in DbOutcomes : BulkUpdateTodosStep(1, fail)

SpecBulk == Init /\ [][NextBulk]_vars

-----------------------------------------------------------------------------
(* bulkUpdateTodos: the returned count                                     *)

\* the ids of the first n entries of the list of call o
IdsBefore(o, n) == {o.ids[k].v : k \in 1..Min(n, Len(o.ids))}

\* the stored todos the completed call o modified, no other call having run meanwhile
Modified(o) == IdsBefore(o, Len(o.ids)) \cap DOMAIN todos

\* C14: a bulkUpdateTodos call that completes returns the number of distinct
\* stored todos it modified, not the number of ids submitted: ids of no row
\* add nothing and a repeated id counts once, for lists below, at and above
\* the batch size of 50.
C14_BulkReturnsRowsChanged ==
    \A p \in Slots :
        (BulkOf(ops[p]) /\ ops[p].pc = "done" /\ ops[p].res.err = "none")
            => ops[p].res.count = Cardinality(Modified(ops[p]))

-----------------------------------------------------------------------------
(* bulkUpdateTodos: a storage failure in the middle of the list            *)

\* the call of slot o ended because one of its statements failed
FailedMidway(o) == BulkOf(o) /\ o.pc = "done" /\ o.res.err = "DatabaseError"

\* the rows call o updated before its failing statement
AppliedBefore(o) == IdsBefore(o, o.stmts - 1) \cap DOMAIN todos

\* row r carries what call o writes
Applied(o, r) ==
    /\ r.completed = Val(o.data.completed)
    /\ r.priority = Val(o.data.priority)

-----------------------------------------------------------------------------
(* SpecQuery: getAllTodos on tables made by createTodo and updateTodo, one *)
(* call at a time                                                          *)

Ab == <<Run("A", 1), Run("b", 1)>>
Underscored == <<Run("A", 1), Run("_", 1)>>

CreatesQuery ==
    {Data(Some(Ab), Undefined, Undefined, Some("high")),
     Data(Some(B1), Some(Underscored), Undefined, Undefined)}

UpdatesQuery == {Data(Undefined, Undefined, Some(TRUE), Undefined)}

Filters ==
    {NoFilter,
     Filter(Some(TRUE), Undefined, Undefined),
     Filter(Some(FALSE), Some("high"), Undefined),
     Filter(Undefined, Undefined, Some(A1)),
     Filter(Undefined, Undefined, Some(Rep("_", 1))),
     Filter(Undefined, Some("medium"), Some(Rep("B", 1))),
     Filter(Undefined, Undefined, Some(Empty))}

Sorts ==
    {Undefined, Some(Sort("createdAt", "asc")), Some(Sort("updatedAt", "desc")),
     Some(Sort("title", "asc")), Some(Sort("title", "desc")),
     Some(Sort("priority", "asc")), Some(Sort("priority", "desc"))}

Paginations ==
    {Some(Pagination(1, 0)), Some(Pagination(1, 1)), Some(Pagination(0, 0)),
     Some(Pagination(MaxRows, 1)), Some(Pagination(-1, 0))}

\* the arguments of the getAllTodos calls: <<filter, sort, pagination>>
QueryArgs ==
    {<<f, Undefined, Undefined>> : f \in Filters}
    \cup {<<NoFilter, st, Undefined>> : st \in Sorts}
    \cup {<<NoFilter, st, pg>> : st \in {Undefined, Some(Sort("title", "asc"))}, pg \in Paginations}
    \cup {<<Filter(Undefined, Undefined, Some(A1)), Some(Sort("title", "desc")),
            Some(Pagination(1, 0))>>}

NextQuery ==
    \/ \E d \in TickSteps : Tick(d)
    \/ Return(1)
    \/ \E data \in CreatesQuery : Room(data, MaxRows) /\ CreateTodoCall(1, data)
    \/ \E fail \in DbOutcomes : CreateTodoInsert(1, fail)
    \/ \E id \in ValidIds, data \in UpdatesQuery : UpdateTodoCall(1, id, data)
    \/ \E fail \in DbOutcomes : UpdateTodoWrite(1, fail)
    \/ \E a \in QueryArgs : GetAllTodosCall(1, a[1], a[2], a[3])
    \/ \E fail \in DbOutcomes : GetAllTodosSelect(1, fail)

SpecQuery == Init /\ [][NextQuery]_vars

-----------------------------------------------------------------------------
(* SpecStats: getTodoStats on tables made by createTodo and updateTodo,    *)
(* one call at a time                                                      *)

UpdatesStats ==
    {Data(Undefined, Undefined, Some(TRUE), Undefined),
     Data(Undefined, Undefined, Undefined, Some(""))}

NextStats ==
    \/ \E d \in TickSteps : Tick(d)
    \/ Return(1)
    \/ \E data \in CreatesQuery : Room(data, MaxRows) /\ CreateTodoCall(1, data)
    \/ \E fail \in DbOutcomes : CreateTodoInsert(1, fail)
    \/ \E id \in ValidIds, data \in UpdatesStats : UpdateTodoCall(1, id, data)
    \/ \E fail \in DbOutcomes : UpdateTodoWrite(1, fail)
    \/ GetTodoStatsCall(1)
    \/ \E k \in 1..Len(StatsQueries), fail \in DbOutcomes : GetTodoStatsCount(1, k, fail)

SpecStats == Init /\ [][NextStats]_vars

-----------------------------------------------------------------------------
(* getTodoStats                                                            *)

\* the call of slot o of op returned a value
Returned(o, op) == o.op = op /\ o.pc = "done" /\ o.res.err = "none"

RowsWith(field, v) == Cardinality({k \in DOMAIN todos : todos[k][field] = v})

\* C16: in every state reachable by the data-access operations, a getTodoStats
\* call that runs with no write meanwhile returns total = completed + pending
\* and total = low + medium + high, each count being the number of stored rows
\* it stands for.
C16_StatsAddUp ==
    \A p \in Slots : Returned(ops[p], "getTodoStats") =>
        LET st == ops[p].res.stats
        IN  /\ st.total = st.completed + st.pending
            /\ st.total = st.low + st.medium + st.high
            /\ st.total = Cardinality(DOMAIN todos)
            /\ st.completed = RowsWith("completed", TRUE)
            /\ st.pending = RowsWith("completed", FALSE)
            /\ st.low = RowsWith("priority", "low")
            /\ st.medium = RowsWith("priority", "medium")
            /\ st.high = RowsWith("priority", "high")

-----------------------------------------------------------------------------
(* getAllTodos: the rows it returns                                        *)

\* term occurs in text, without regard to case
Occurs(term, text) ==
    \E a \in 1..(Len(text) + 1) :
        /\ a + Len(term) - 1 <= Len(text)
        /\ \A k \in 1..Len(term) : LowerChar(text[a + k - 1]) = LowerChar(term[k])

\* the row satisfies the predicate of every key present in the filter
Satisfies(row, filter) ==
    /\ filter.completed # Undefined => row.completed = Val(filter.completed)
    /\ filter.priority # Undefined => row.priority = Val(filter.priority)
    /\ filter.search # Undefined =>
            \/ Occurs(Chars(Val(filter.search)), Chars(row.title))
            \/ /\ row.description # Null
               /\ Occurs(Chars(Val(filter.search)), Chars(Val(row.description)))

IdsOf(rows) == {rows[a].id : a \in 1..Len(rows)}

\* every returned todo is a stored row, and none comes twice
StoredRows(rows) ==
    /\ Cardinality(IdsOf(rows)) = Len(rows)
    /\ \A a \in 1..Len(rows) :
          rows[a].id \in DOMAIN todos /\ rows[a] = ToTodo(todos[rows[a].id])

\* C17: getAllTodos returns exactly the stored rows that satisfy the predicates
\* of all the filter keys present: completed equal to the flag, priority equal
\* to the value, the search term occurring without regard to case in the title
\* or in the description; an absent key constrains nothing and with no filter
\* every row is returned.
C17_FilterSelectsExactlyMatchingRows ==
    \A p \in Slots :
        (Returned(ops[p], "getAllTodos") /\ ops[p].pagination = Undefined)
            => /\ StoredRows(ops[p].res.rows)
               /\ IdsOf(ops[p].res.rows) =
                    {k \in DOMAIN todos : Satisfies(todos[k], ops[p].filter)}

-----------------------------------------------------------------------------
(* getAllTodos: the order of its result                                    *)

\* the sort key of a returned todo
SortKey(todo, field) ==
    CASE field = "createdAt" -> <<todo.createdAt>>
      [] field = "updatedAt" -> <<todo.updatedAt>>
      [] field = "title" -> [k \in 1..Len(Chars(todo.title)) |-> Code(Chars(todo.title)[k])]
      [] field = "priority" ->
            [k \in 1..Len(PriorityChars(todo.priority)) |-> Code(PriorityChars(todo.priority)[k])]

\* rows is ordered by field in direction order
OrderedBy(rows, field, order) ==
    \A a \in 1..(Len(rows) - 1) :
        IF order = "desc"
        THEN LexLeq(SortKey(rows[a + 1], field), SortKey(rows[a], field))
        ELSE LexLeq(SortKey(rows[a], field), SortKey(rows[a + 1], field))

\* C18: getAllTodos without a sort argument orders its result by createdAt
\* descending, and with a sort spec by that one field in the given direction:
\* of two consecutive todos the first's key is >= the second's for desc and <=
\* for asc.
C18_ResultOrderedBySortKey ==
    \A p \in Slots : Returned(ops[p], "getAllTodos") =>
        IF ops[p].sort = Undefined
        THEN OrderedBy(ops[p].res.rows, "createdAt", "desc")
        ELSE OrderedBy(ops[p].res.rows, Val(ops[p].sort).field, Val(ops[p].sort).order)

\* without a sort argument the todo created later came first
C18_Witness ==
    \E p \in Slots :
        /\ Returned(ops[p], "getAllTodos")
        /\ ops[p].sort = Undefined /\ ops[p].pagination = Undefined
        /\ Len(ops[p].res.rows) = 2
        /\ ops[p].res.rows[1].createdAt > ops[p].res.rows[2].createdAt

\* C19: getAllTodos with no filter, sort or pagination returns all todos in the
\* order they were created: each returned todo has a smaller id than the one
\* returned after it.
C19_DefaultOrderIsCreationOrder ==
    \A p \in Slots :
        (/\ Returned(ops[p], "getAllTodos")
         /\ ops[p].filter = NoFilter /\ ops[p].sort = Undefined
         /\ ops[p].pagination = Undefined)
            => /\ IdsOf(ops[p].res.rows) = DOMAIN todos
               /\ \A a \in 1..(Len(ops[p].res.rows) - 1) :
                     ops[p].res.rows[a].id < ops[p].res.rows[a + 1].id

-----------------------------------------------------------------------------
(* getAllTodos: pagination                                                 *)

\* rows is what follows the first offset entries of full, up to limit of them
PageOf(rows, full, limit, offset) ==
    /\ Len(rows) = Max(0, Min(limit, Len(full) - offset))
    /\ \A a \in 1..Len(rows) : rows[a] = full[offset + a]

\* C20: with pagination {limit, offset} getAllTodos returns at most limit rows,
\* those that follow the first offset rows of the filtered and sorted result;
\* without pagination it returns the whole filtered result.
C20_PaginationReturnsPage ==
    \A p \in Slots : Returned(ops[p], "getAllTodos") =>
        LET o == ops[p]
            full == Query(todos, o.filter, o.sort, Undefined)
        IN  IF o.pagination = Undefined
            THEN o.res.rows \in full
            ELSE /\ Len(o.res.rows) <= Max(0, Val(o.pagination).limit)
                 /\ \E f \in full :
                      PageOf(o.res.rows, f, Val(o.pagination).limit, Val(o.pagination).offset)

-----------------------------------------------------------------------------
(* SpecSearch: searchTodos in slot 1 and getAllTodos with a filter that    *)
(* holds only a search term in slot 2, on tables made by createTodo; one   *)
(* call at a time                                                          *)

SearchTerms == {Empty, Blank, A1, Rep("B", 1), Rep("_", 1), E1}

NextSearch ==
    \/ \E d \in TickSteps : Tick(d)
    \/ \E p \in Slots : Return(p)
    \/ \E data \in CreatesQuery : Quiet /\ Room(data, MaxRows) /\ CreateTodoCall(1, data)
    \/ \E fail \in DbOutcomes : CreateTodoInsert(1, fail)
    \/ \E term \in SearchTerms : Quiet /\ SearchTodosCall(1, term)
    \/ \E fail \in DbOutcomes : SearchTodosSelect(1, fail)
    \/ \E term \in SearchTerms :
          Quiet /\ GetAllTodosCall(2, Filter(Undefined, Undefined, Some(term)),
                                   Undefined, Undefined)
    \/ \E fail \in DbOutcomes : GetAllTodosSelect(2, fail)

SpecSearch == Init /\ [][NextSearch]_vars

-----------------------------------------------------------------------------
(* searchTodos and getAllTodos                                             *)

\* the term of the searchTodos call, or of the filter of the getAllTodos call, of slot o
TermOf(o) == Chars(Val(o.filter.search))

IsBlank(cs) == \A k \in 1..Len(cs) : cs[k] = " "

\* the stored rows whose title or description holds the term, without regard to case
Containing(cs) ==
    {k \in DOMAIN todos :
        \/ Occurs(cs, Chars(todos[k].title))
        \/ todos[k].description # Null /\ Occurs(cs, Chars(Val(todos[k].description)))}

\* C21: searchTodos with an empty or whitespace-only term returns an empty
\* sequence without a statement being executed; with any other term it
\* returns the rows whose title or description holds the term without regard
\* to case, the same set of rows getAllTodos returns for a filter holding only
\* that term.
C21_SearchMatchesFilterSearch ==
    \A p \in Slots : (ops[p].op = "searchTodos" /\ ops[p].pc = "done") =>
        IF IsBlank(TermOf(ops[p]))
        THEN ops[p].res = ReturnRows(<<>>) /\ ops[p].stmts = 0
        ELSE (ops[p].res.err = "none" /\ ~ops[p].dirty) =>
                /\ StoredRows(ops[p].res.rows)
                /\ IdsOf(ops[p].res.rows) = Containing(TermOf(ops[p]))
                /\ \A q \in Slots :
                      (/\ Fresh(q, "getAllTodos")
                       /\ ops[q].filter = ops[p].filter
                       /\ ops[q].sort = Undefined /\ ops[q].pagination = Undefined)
                          => IdsOf(ops[q].res.rows) = IdsOf(ops[p].res.rows)

-----------------------------------------------------------------------------
(* SpecRoute: forms posted to the route action one at a time, and          *)
(* getErrorMessage applied to thrown values                                *)

Text1(c) == Some(Rep(c, 1))
Text2(c, d) == Some(<<Run(c, 1), Run(d, 1)>>)

IdTexts ==
    {Text1("1"), Text2(" ", "2"), Text2("1", "x"), Text1("x"), Text2("-", "1"), Null}

Form(intent, id, completed, title, description, priority) ==
    [NoRequest EXCEPT !.intent = intent, !.id = id, !.completed = completed,
                      !.title = title, !.description = description, !.priority = priority]

Forms ==
    {Form(Some("create"), Null, Null, t, Null, pr) :
        t \in {Some(A1), Some(File), Null}, pr \in {Null, Some("urgent")}}
    \cup {Form(Some("create"), Null, Null, Some(A1), Some(D1), Some("high"))}
    \cup {Form(Some("toggle"), id, c, Null, Null, Null) :
        id \in IdTexts, c \in {Some("true"), Some("false"), Null}}
    \cup {Form(Some("delete"), id, Null, Null, Null, Null) :
        id \in {Text1("1"), Text1("x"), Text1("0")}}
    \cup {Form(Some("update"), Text1("1"), Null, t, Null, Some("low")) :
        t \in {Some(E1), Some(File), Null}}
    \cup {Form(i, Text1("1"), Null, Null, Null, Null) : i \in {Null, Some("archive")}}

ErrorValues ==
    {ErrorObject("ValidationError", <<"Title is required">>),
     NotFoundError("Todo", Some(1)), NotFoundError("Todo", {}),
     NewDatabaseError(<<"Database operation failed">>,
                      ErrorObject("Error", <<"DB connection failed">>)),
     ErrorObject("TodoError", <<"Test message">>),
     ErrorObject("Error", <<"Some random error">>),
     ErrorObject("TypeError", <<"x is not a function">>),
     StringValue(<<"string error">>), NullValue}

NextRoute ==
    \/ \E d \in TickSteps : Tick(d)
    \/ \E p \in Slots : Return(p)
    \/ \E request \in Forms :
          /\ request.intent = Some("create") => Cardinality(DOMAIN todos) < MaxRows
          /\ ActionCall(1, request)
    \/ \E fail \in DbOutcomes : CreateTodoInsert(1, fail)
    \/ \E fail \in DbOutcomes : UpdateTodoWrite(1, fail)
    \/ \E fail \in DbOutcomes : DeleteTodoWrite(1, fail)
    \/ \E error \in ErrorValues : GetErrorMessageCall(1, error)

SpecRoute == Init /\ [][NextRoute]_vars

-----------------------------------------------------------------------------
(* getErrorMessage and the route action                                    *)

DomainKinds == {"ValidationError", "NotFoundError", "DatabaseError"}

\* the message getErrorMessage is to return for value e, when the classes in
\* own are the ones whose message is shown
Expected(e, own) ==
    IF e.type = "object" /\ e.class \in own THEN e.message
    ELSE IF e.type = "object" THEN Unexpected
    ELSE Unknown

\* what is said of an action whose catch clause caught a value that is no
\* error of errors.ts, or a DatabaseError that wraps a failure of the engine
NothingLeaks(o) ==
    /\ o.res.err \notin {"none", "ValidationError", "DatabaseError"} =>
          /\ ActionReturn(o).error \in {Unexpected, Unknown}
          /\ ActionReturn(o).error # Thrown(o).message
    /\ o.res.err = "DatabaseError" => ActionReturn(o).error # EngineMessage
    /\ o.res.err \in {"ValidationError", "DatabaseError"} =>
          ActionReturn(o).error = Thrown(o).message

\* C22 as stated: getErrorMessage returns the own message of every
\* ValidationError, NotFoundError and DatabaseError, "An unexpected error
\* occurred" for every other Error, and "An unknown error occurred" for a
\* value that is no Error; no message of a failure that is no domain error
\* reaches the value the route action returns.
C22_MessageByKindAsStated ==
    \A p \in Slots : ops[p].pc = "done" =>
        /\ ops[p].op = "getErrorMessage" =>
              ops[p].res.message = Expected(Val(ops[p].error), DomainKinds)
        /\ ops[p].op = "action" => NothingLeaks(ops[p])

\* C22: getErrorMessage returns the own message of every TodoError, which
\* every ValidationError, NotFoundError and DatabaseError is, "An unexpected
\* error occurred" for every other Error, and "An unknown error occurred" for
\* a value that is no Error; no message of a failure that is no domain error
\* reaches the value the route action returns.
C22_MessageByKind ==
    \A p \in Slots : ops[p].pc = "done" =>
        /\ ops[p].op = "getErrorMessage" =>
              ops[p].res.message = Expected(Val(ops[p].error), DomainKinds \cup {"TodoError"})
        /\ ops[p].op = "action" => NothingLeaks(ops[p])

\* the action caught a TypeError, with rows stored
C22_Witness ==
    /\ ops[1].pc = "done" /\ ops[1].op = "action" /\ ops[1].res.err = "TypeError"
    /\ ActionReturn(ops[1]) = Failure(Unexpected)
    /\ todos # <<>>

-----------------------------------------------------------------------------
(* The toggle intent of the route action                                   *)

\* the action of slot o is a toggle whose statement is about to be executed
TogglePosted(o) ==
    o.op = "action" /\ o.request.intent = Some("toggle") /\ o.pc = "update"

\* C27: when the toggle intent of the route action succeeds for a todo that
\* exists, the stored completed flag becomes the negation of what it was just
\* before, whatever completed value the form carried.
C27_ToggleIntentNegatesStoredFlag ==
    [][\A p \in Slots :
          (/\ TogglePosted(ops[p])
           /\ ops'[p].pc = "done"
           /\ ActionReturn(ops'[p]) = Success("Todo updated successfully"))
              => /\ ops[p].id.v \in DOMAIN todos
                 /\ todos'[ops[p].id.v].completed = ~todos[ops[p].id.v].completed]_vars

-----------------------------------------------------------------------------
(* SpecLoader: requests to the loader in slot 2 on tables made by          *)
(* createTodo in slot 1, one call at a time                                *)

Url(completed, priority, search, sort, order, limit, offset) ==
    [NoRequest EXCEPT !.completed = completed, !.priority = priority, !.search = search,
                      !.sort = sort, !.order = order, !.limit = limit, !.offset = offset]

LimitTexts ==
    {Null, Some(Empty), Some(<<Run("1", 1), Run("5", 1), Run("0", 1)>>),
     Some(<<Run("1", 1), Run("0", 2)>>), Text1("0"), Text1("1"), Text2("-", "5"),
     Some(<<Run("a", 1), Run("b", 1), Run("c", 1)>>), Text2("1", ".")}

Urls ==
    {Url(Null, Null, Null, Null, Null, l, Null) : l \in LimitTexts}
    \cup {Url(Null, Null, Null, Some("title"), Some("asc"), Text1("1"), o) :
            o \in {Text1("1"), Text2("-", "1"), Text1("x")}}
    \cup {Url(Some("false"), Some("high"), Null, Null, Null, Null, Null),
          Url(Some("yes"), Some("urgent"), Some(A1), Some(""), Null, Null, Null)}

NextLoader ==
    \/ \E d \in TickSteps : Tick(d)
    \/ \E p \in Slots : Return(p)
    \/ \E data \in CreatesQuery : Quiet /\ Room(data, MaxRows) /\ CreateTodoCall(1, data)
    \/ \E fail \in DbOutcomes : CreateTodoInsert(1, fail)
    \/ \E request \in Urls : Quiet /\ LoaderCall(2, request)
    \/ \E fail \in DbOutcomes : LoaderSelect(2, fail)
    \/ \E k \in 1..Len(StatsQueries), fail \in DbOutcomes : LoaderCount(2, k, fail)

SpecLoader == Init /\ [][NextLoader]_vars

-----------------------------------------------------------------------------
(* The limit the loader passes to getAllTodos                              *)

\* C28: whatever the limit parameter of the request URL is (absent, above
\* 100, zero, negative, not a number), the loader calls getAllTodos with a
\* limit that is a whole number from 0 to 100, and with 50 when the parameter
\* is absent.
C28_LoaderLimitWithinBounds ==
    \A p \in Slots : ops[p].op = "loader" =>
        LET limit == Val(ops[p].pagination).limit
        IN  /\ limit.kind = "int"
            /\ 0 <= limit.v /\ limit.v <= 100
            /\ ops[p].request.limit = Null => limit.v = 50

-----------------------------------------------------------------------------
(* Ids: unique, never changed, never used again                            *)

\* the ids that were given to a row which has been deleted since: the
\* sequence gives 1, 2, ... and has reached nextId
DeletedIds == (1..(nextId - 1)) \ DOMAIN todos

\* slot p completes a call of op in this step without an error
Completes(p, op) ==
    /\ ops[p].op = op /\ ops[p].pc # "done"
    /\ ops'[p].op = op /\ ops'[p].pc = "done" /\ ops'[p].res.err = "none"

-----------------------------------------------------------------------------
(* SpecToggle: one row made by createTodo, then toggleTodoComplete calls   *)
(* on its id, one in each slot, their statements in any order; the         *)
(* outcomes of the toggles are kept to be compared                         *)

NextToggle ==
    \/ \E d \in TickSteps : Tick(d)
    \/ \E p \in Slots : ops[p].op = "createTodo" /\ Return(p)
    \/ \E data \in CreatesQuery : nextId = 1 /\ CreateTodoCall(1, data)
    \/ \E fail \in DbOutcomes : CreateTodoInsert(1, fail)
    \/ \E p \in Slots : 1 \in DOMAIN todos /\ ToggleTodoCompleteCall(p, Int_(1))
    \/ \E p \in Slots, fail \in DbOutcomes : ToggleTodoCompleteSelect(p, fail)
    \/ \E p \in Slots : ToggleTodoCompleteResume(p)
    \/ \E p \in Slots, fail \in DbOutcomes : ToggleTodoCompleteWrite(p, fail)

SpecToggle == Init /\ [][NextToggle]_vars

-----------------------------------------------------------------------------
(* Overlapping toggles                                                     *)

\* the slots whose toggleTodoComplete has returned a record
Toggled ==
    {p \in Slots : /\ ops[p].op = "toggleTodoComplete" /\ ops[p].pc = "done"
                   /\ ops[p].res.err = "none" /\ ops[p].res.row # Null}

\* C24: when k toggleTodoComplete calls on the same existing id overlap, their
\* reads and writes in any order, with no other writer and every call
\* returning a record, the stored completed flag is negated k times: as it
\* was (false, as createTodo stored it) for even k, flipped for odd k.
C24_OverlappingTogglesNegateEachTime ==
    (/\ 1 \in DOMAIN todos
     /\ \A p \in Slots : ops[p].op = "toggleTodoComplete" => p \in Toggled)
        => todos[1].completed = (Cardinality(Toggled) % 2 = 1)

-----------------------------------------------------------------------------
(* SpecStatsRace: getTodoStats in slot 2 while createTodo, updateTodo and  *)
(* deleteTodo calls of slot 1 write, statement by statement                *)

MaxWindow == 2

\* a write is executed only while the window of every counting call has room
WindowOpen == \A q \in Slots : Counting(ops[q]) => ops[q].window < MaxWindow

NextStatsRace ==
    \/ \E p \in Slots : Return(p)
    \/ \E data \in Creates : Room(data, MaxRows) /\ CreateTodoCall(1, data)
    \/ \E fail \in DbOutcomes : WindowOpen /\ CreateTodoInsert(1, fail)
    \/ \E id \in ValidIds, data \in UpdatesStats : UpdateTodoCall(1, id, data)
    \/ \E fail \in DbOutcomes : WindowOpen /\ UpdateTodoWrite(1, fail)
    \/ \E id \in ValidIds : DeleteTodoCall(1, id)
    \/ \E fail \in DbOutcomes : WindowOpen /\ DeleteTodoWrite(1, fail)
    \/ GetTodoStatsCall(2)
    \/ \E k \in 1..Len(StatsQueries), fail \in DbOutcomes : GetTodoStatsCount(2, k, fail)

SpecStatsRace == Init /\ [][NextStatsRace]_vars

-----------------------------------------------------------------------------
(* getTodoStats while rows are written                                     *)

Abs(n) == IF n < 0 THEN 0 - n ELSE n

\* C25: when writes fall between the six counts of one getTodoStats call, the
\* counts it returns differ by no more than those writes: |total - (completed
\* + pending)| and |total - (low + medium + high)| are each at most the number
\* of writes executed between the first and the last count of the call.
C25_StatsOffByAtMostWindow ==
    \A p \in Slots : Returned(ops[p], "getTodoStats") =>
        LET st == ops[p].res.stats
        IN  /\ Abs(st.total - (st.completed + st.pending)) <= ops[p].window
            /\ Abs(st.total - (st.low + st.medium + st.high)) <= ops[p].window

-----------------------------------------------------------------------------
(* SpecAccess: every data-access operation, one call at a time, with ids   *)
(* of every kind and a storage engine that can fail at every statement     *)

NextAccess ==
    \/ Return(1)
    \/ \E data \in Creates \cup {NoData} : Room(data, MaxRows) /\ CreateTodoCall(1, data)
    \/ \E fail \in DbOutcomes : CreateTodoInsert(1, fail)
    \/ \E id \in ValidIds \cup InvalidIds : GetTodoByIdCall(1, id)
    \/ \E fail \in DbOutcomes : GetTodoByIdSelect(1, fail)
    \/ \E id \in ValidIds \cup InvalidIds, data \in UpdatesSeq : UpdateTodoCall(1, id, data)
    \/ \E fail \in DbOutcomes : UpdateTodoWrite(1, fail)
    \/ \E id \in ValidIds \cup InvalidIds : DeleteTodoCall(1, id)
    \/ \E fail \in DbOutcomes : DeleteTodoWrite(1, fail)
    \/ \E id \in ValidIds \cup InvalidIds : ToggleTodoCompleteCall(1, id)
    \/ \E fail \in DbOutcomes : ToggleTodoCompleteSelect(1, fail)
    \/ ToggleTodoCompleteResume(1)
    \/ \E fail \in DbOutcomes : ToggleTodoCompleteWrite(1, fail)
    \/ \E ids \in BulkIdsSeq, updates \in BulkUpdatesSeq : BulkUpdateTodosCall(1, ids, updates)
    \/ \E fail \in DbOutcomes : BulkUpdateTodosStep(1, fail)
    \/ GetAllTodosCall(1, Filter(Some(FALSE), Undefined, Undefined), Undefined,
                       Some(Pagination(1, 0)))
    \/ \E fail \in DbOutcomes : GetAllTodosSelect(1, fail)
    \/ GetTodoStatsCall(1)
    \/ \E k \in 1..Len(StatsQueries), fail \in DbOutcomes : GetTodoStatsCount(1, k, fail)
    \/ \E completed \in BOOLEAN : GetTodosByStatusCall(1, completed)
    \/ \E fail \in DbOutcomes : GetTodosByStatusSelect(1, fail)
    \/ \E priority \in Priorities : GetTodosByPriorityCall(1, priority)
    \/ \E fail \in DbOutcomes : GetTodosByPrioritySelect(1, fail)
    \/ \E term \in {Blank, A1} : SearchTodosCall(1, term)
    \/ \E fail \in DbOutcomes : SearchTodosSelect(1, fail)

SpecAccess == Init /\ [][NextAccess]_vars

-----------------------------------------------------------------------------
(* Errors that reach the caller                                            *)

\* the call of slot o has ended in this step, at the execution of a statement
FailsAtStatement(p) ==
    /\ ops'[p].pc = "done" /\ ops'[p].res.err # "none"
    /\ ops'[p].stmts = ops[p].stmts + 1

\* C26: every failure of the storage engine inside a data-access operation
\* reaches the caller as a DatabaseError, never as the error of the engine;
\* a ValidationError raised in a nested call (toggleTodoComplete calling
\* getTodoById and updateTodo) reaches the caller as that ValidationError and
\* is not wrapped in a DatabaseError.
C26_StorageFailuresWrappedValidationKept ==
    [][\A p \in Slots :
          /\ FailsAtStatement(p) => ops'[p].res.err = "DatabaseError" /\ todos' = todos
          /\ ops'[p].pc = "done" =>
                /\ ops'[p].res.err \in {"none", "ValidationError", "DatabaseError"}
                /\ ops'[p].res.err = "ValidationError" => ops'[p].stmts = 0
                /\ (/\ ops'[p].op = "toggleTodoComplete"
                    /\ ops'[p].id \in InvalidIds)
                      => ops'[p].res.err = "ValidationError" /\ ops'[p].res.field = "id"]_vars

\* the update of a toggleTodoComplete failed in the engine: the call ended in
\* a DatabaseError after its two statements
C26_Witness ==
    /\ ops[1].op = "toggleTodoComplete" /\ ops[1].pc = "done"
    /\ ops[1].stmts = 2 /\ ops[1].res.err = "DatabaseError"
    /\ 1 \in DOMAIN todos

=============================================================================
